---- MODULE Spec2Model ----
(***************************************************************************)
(* Interview orchestration: InterviewService over SessionRepositoryImpl    *)
(* (database row + conversation log + TTL cache), AnswerProcessor and      *)
(* FollowupGenerator.  One session id is tracked.                          *)
(*                                                                         *)
(* Text is a sequence of one-character strings.  The question_type tags    *)
(* of the source are written in ASCII:                                     *)
(*   "core"            for  核心问题                                        *)
(*   "followup_answer" for  追问回答                                        *)
(*   "followup_skip"   for  追问跳过                                        *)
(***************************************************************************)
EXTENDS Integers, Sequences, FiniteSets, TLC

VARIABLES
    db,      \* sessions table: session id -> row (stored sessions only)
    cache,   \* SessionCache: session id -> cached Session object
    log,     \* conversation_logs: session id -> rows, oldest first
    ret,     \* outcome of the last service call: [op, sid, out]
    before,  \* <<>> or <<[session, log_len]>> as read at the start of the last turn or restart
    fu,      \* <<>> or <<r>>: last direct call of should_followup, r = arguments and result
    sq,      \* <<>> or <<r>>: last direct call of the question selector, r = arguments and result
    hsession,     \* InterviewHandler.session: <<>> (None) or <<the InterviewSession object>>
    undo_stack,   \* InterviewHandler._undo_stack, oldest snapshot first
    legacy_db,    \* data.Database: the session's row and its conversation_logs rows
    hret,         \* outcome of the last InterviewHandler call
    undoable,     \* the session as it was before each handler operation not yet undone
    min_answer_length,  \* FollowupGenerator._min_answer_length, set at construction
    repo,    \* a SessionRepositoryImpl called directly: its row, its cache entry, the last save
    got      \* <<>> or <<r>>: what the last direct repository call returned

servicevars == <<db, cache, log, ret, before>>
webvars == <<hsession, undo_stack, legacy_db, hret, undoable>>
vars == <<db, cache, log, ret, before, fu, sq, hsession, undo_stack, legacy_db, hret, undoable,
          min_answer_length, repo, got>>

\* ------------------------------------------------------------------ bounds
TotalQuestions == 2
MaxFollowupsPerQuestion == 2
NumTopics == 2
MaxSeed == 1
\* turns are accepted while the log holds fewer rows than this
MaxLogLen == 3

\* ------------------------------------------------------- program constants
MinAnswerLength == 15
MaxDepthScore == 4

SessionIds == {1}
Seeds == 0..MaxSeed

NoTopic == 0
\* no provider configured (llm=None), and a provider that returns None
NoLlm == <<"NoLlm">>
Nothing == <<"None">>

\* ------------------------------------------------------------------- text
Rep(c, n) == [i \in 1..n |-> c]

IsSpace(c) == c = " "

RECURSIVE LStrip(_)
LStrip(s) == IF s # <<>> /\ IsSpace(Head(s)) THEN LStrip(Tail(s)) ELSE s

RECURSIVE RStrip(_)
RStrip(s) ==
    IF s # <<>> /\ IsSpace(s[Len(s)]) THEN RStrip(SubSeq(s, 1, Len(s) - 1)) ELSE s

Strip(s) == RStrip(LStrip(s))

LowerChar(c) ==
    CASE c = "E" -> "e"
      [] c = "X" -> "x"
      [] c = "P" -> "p"
      [] OTHER -> c

\* str.lower() maps a capital sigma by its place in the word: to the final
\* form when a cased letter comes before it and none comes after it (letters
\* that case ignores, here the apostrophe, are passed over), to the medial
\* form otherwise
CaseIgnorable(c) == c = "'"

Cased(c) == c \notin {" ", "'"}

FinalSigma(s, i) ==
    /\ \E j \in 1..(i - 1) :
          /\ Cased(s[j])
          /\ \A k \in (j + 1)..(i - 1) : CaseIgnorable(s[k])
    /\ ~ \E j \in (i + 1)..Len(s) :
          /\ Cased(s[j])
          /\ \A k \in (i + 1)..(j - 1) : CaseIgnorable(s[k])

Lower(s) ==
    [i \in 1..Len(s) |->
        IF s[i] = "SIGMA"
          THEN (IF FinalSigma(s, i) THEN "final_sigma" ELSE "sigma")
        ELSE LowerChar(s[i])]

\* kw in text
Contains(text, kw) ==
    \E i \in 0..(Len(text) - Len(kw)) : SubSeq(text, i + 1, i + Len(kw)) = kw

Min(a, b) == IF a <= b THEN a ELSE b
Max(a, b) == IF a >= b THEN a ELSE b

\* ---------------------------------------------------------- topic catalog
Topics == 1..NumTopics

TopicName(t) == <<"topic", t>>
TopicQuestion(t) == <<"Q", t>>
\* preset follow-ups of a topic; even topics have none
TopicFollowups(t) ==
    IF t % 2 = 1 THEN << <<"F", t>>, <<"G", t>> >> ELSE <<>>

DefaultFollowup == <<"F", 0>>
LlmFollowup == <<"AI", 1>>

\* random.Random(seed).choice(seq): a fixed function of the seed and the list
RngChoice(seed, seq) == seq[(seed % Len(seq)) + 1]

\* ------------------------------------------------------- AnswerProcessor
DepthKeywords ==
    << <<"e", "x">>, <<"p">>, <<"q">>, <<"r">>, <<"x", "e">> >>

RECURSIVE CountHits(_, _)
CountHits(text, kws) ==
    IF kws = <<>> THEN 0
    ELSE (IF Contains(text, Head(kws)) THEN 1 ELSE 0) + CountHits(text, Tail(kws))

\* score_depth of an AnswerProcessor built with these keywords
ScoreDepth(depth_keywords, answer) ==
    IF answer = <<>> THEN 0
    ELSE Min(CountHits(Lower(answer), depth_keywords), MaxDepthScore)

score_depth(answer) == ScoreDepth(DepthKeywords, answer)

NoValidAnswer == Rep("u", 9)
NoFollowupAnswer == Rep("u", 7)
SkipAnswer == <<"s", "k", "i", "p">>
SkipFollowupAnswer == <<"s", "k", "i", "p", "f">>

process_core_answer(answer, topic, question_text) ==
    LET valid_answer == IF Strip(answer) # <<>> THEN Strip(answer) ELSE NoValidAnswer
    IN  [topic |-> TopicName(topic),
         question_type |-> "core",
         question |-> question_text,
         answer |-> valid_answer,
         depth_score |-> score_depth(valid_answer),
         is_ai_generated |-> FALSE]

process_followup_answer(answer, topic, followup_question, is_ai_generated) ==
    LET valid_answer == IF Strip(answer) # <<>> THEN Strip(answer) ELSE NoFollowupAnswer
    IN  [topic |-> TopicName(topic),
         question_type |-> "followup_answer",
         question |-> followup_question,
         answer |-> valid_answer,
         depth_score |-> score_depth(valid_answer),
         is_ai_generated |-> is_ai_generated]

\* ----------------------------------------------------- FollowupGenerator
\* llm is NoLlm (no provider configured) or what the provider returns when
\* called: Nothing, the empty text, or a question.
FollowupResult(need, question, is_ai, consulted) ==
    [need_followup |-> need, followup_question |-> question,
     is_ai_generated |-> is_ai, consulted |-> consulted]

\* an answer of exactly the minimum length counts as short
ForcedInclusive(valid_answer) ==
    valid_answer = <<>> \/ Len(valid_answer) <= min_answer_length

\* line 59: force
Forced(valid_answer) ==
    valid_answer = <<>> \/ Len(valid_answer) < min_answer_length

\* the topic's own follow-ups are ignored
PresetsDefaultOnly(topic) == <<DefaultFollowup>>

\* line 73: topic.get("followups") or the generic question
Presets(topic) ==
    IF TopicFollowups(topic) # <<>> THEN TopicFollowups(topic)
    ELSE <<DefaultFollowup>>

\* the provider's question is passed on without the AI mark
ProviderFollowupUnmarked(followup) == FollowupResult(TRUE, followup, FALSE, TRUE)

\* lines 68-69: the provider's question
ProviderFollowup(followup) == FollowupResult(TRUE, followup, TRUE, TRUE)

CeilingReachedOffByOne(current_followup_count) ==
    current_followup_count > MaxFollowupsPerQuestion

CeilingReached(current_followup_count) ==
    current_followup_count >= MaxFollowupsPerQuestion

DepthReachedOffByOne(depth_score) == depth_score > MaxDepthScore

DepthReached(depth_score) == depth_score >= MaxDepthScore

\* the ceiling is only looked at once the provider has had its say
should_followupCeilingLate(answer, topic, current_followup_count, depth_score, llm, seed) ==
    LET valid_answer == Strip(answer)
        force == Forced(valid_answer)
        presets == Presets(topic)
    IN  IF DepthReached(depth_score)
          THEN FollowupResult(FALSE, <<>>, FALSE, FALSE)
        ELSE IF llm # NoLlm /\ llm # Nothing /\ llm # <<>>
          THEN ProviderFollowup(llm)
        ELSE IF CeilingReached(current_followup_count)
          THEN FollowupResult(FALSE, <<>>, FALSE, llm # NoLlm)
        ELSE IF force
          THEN FollowupResult(TRUE, RngChoice(seed, presets), FALSE, llm # NoLlm)
        ELSE FollowupResult(FALSE, <<>>, FALSE, llm # NoLlm)

should_followup(answer, topic, current_followup_count, depth_score, llm, seed) ==
    LET valid_answer == Strip(answer)
        force == Forced(valid_answer)
        presets == Presets(topic)
    IN  IF CeilingReached(current_followup_count)
          THEN FollowupResult(FALSE, <<>>, FALSE, FALSE)
        ELSE IF DepthReached(depth_score)
          THEN FollowupResult(FALSE, <<>>, FALSE, FALSE)
        ELSE IF llm # NoLlm /\ llm # Nothing /\ llm # <<>>
          THEN ProviderFollowup(llm)
        ELSE IF force
          THEN FollowupResult(TRUE, RngChoice(seed, presets), FALSE, llm # NoLlm)
        ELSE FollowupResult(FALSE, <<>>, FALSE, llm # NoLlm)

\* ------------------------------------------------------------ Session entity
\* int(session.id.int & 0xFFFFFFFF): the low 32 bits; the ids used here are
\* below 2^31, on which the mask is the identity
SeedOf(id) == id

NewSession(id, selected) ==
    [id |-> id,
     status |-> "active",
     current_question_idx |-> 0,
     selected_topics |-> selected,
     is_followup |-> FALSE,
     current_followup_is_ai |-> FALSE,
     current_followup_count |-> 0,
     current_followup_question |-> <<>>]

is_finishedWrongValue(session) == session.status = "finished"

is_finished(session) == session.status = "completed"

finish(session) == [session EXCEPT !.status = "completed"]

\* -------------------------------------------------- SessionRepositoryImpl
\* row written by save()
ToRow(session) ==
    [session_id |-> session.id,
     is_finished |-> IF is_finished(session) THEN 1 ELSE 0,
     current_question_idx |-> session.current_question_idx,
     selected_topics |-> session.selected_topics,
     is_followup |-> IF session.is_followup THEN 1 ELSE 0,
     current_followup_is_ai |-> IF session.current_followup_is_ai THEN 1 ELSE 0,
     current_followup_count |-> session.current_followup_count,
     current_followup_question |-> session.current_followup_question]

_to_domain_session(model) ==
    [id |-> model.session_id,
     status |-> IF model.is_finished # 0 THEN "completed" ELSE "active",
     current_question_idx |-> model.current_question_idx,
     selected_topics |-> model.selected_topics,
     is_followup |-> model.is_followup # 0,
     current_followup_is_ai |-> model.current_followup_is_ai # 0,
     current_followup_count |-> model.current_followup_count,
     current_followup_question |-> model.current_followup_question]

Put(f, k, v) == [x \in DOMAIN f \cup {k} |-> IF x = k THEN v ELSE f[x]]

\* get(session_id) against cache contents c and table d
get(c, d, sid) ==
    IF sid \in DOMAIN c THEN c[sid] ELSE _to_domain_session(d[sid])

\* whether get(sid) finds a session
Exists(sid) == sid \in DOMAIN cache \/ sid \in DOMAIN db

\* the session as get(sid) returns it while the cache entry is live
RepoGet(sid) == get(cache, db, sid)

\* SessionCache.get at the start of a call: the TTLCache entry may have
\* expired (or been evicted) since it was set
Expire(c, sid, expired) ==
    IF expired THEN [x \in DOMAIN c \ {sid} |-> c[x]] ELSE c

\* the object the handler's get(sid) returns
Fetch(sid, expired) == get(Expire(cache, sid, expired), db, sid)

\* ----------------------------------------------------------- call outcomes
Result(op, sid, out, finished) ==
    [op |-> op, sid |-> sid, out |-> out, is_finished |-> finished]

Snapshot(session, entries) == <<[session |-> session, log_len |-> Len(entries)]>>

\* the log rows are written for every session id
CommittedAnyLog(sid, session, entries, op, finished) ==
    /\ db' = Put(db, sid, ToRow(session))
    /\ cache' = Put(cache, sid, session)
    /\ log' = [x \in DOMAIN log |-> entries]
    /\ ret' = Result(op, sid, "ok", finished)

\* every repository call of the handler succeeded; save() wrote the row and
\* set the cache entry
Committed(sid, session, entries, op, finished) ==
    /\ db' = Put(db, sid, ToRow(session))
    /\ cache' = Put(cache, sid, session)
    /\ log' = [log EXCEPT ![sid] = entries]
    /\ ret' = Result(op, sid, "ok", finished)

\* the handler raised after get(): session is the object get() returned (and
\* left in the cache), as mutated so far; entries are the rows committed so far
Raised(sid, session, entries, op, error) ==
    /\ db' = db
    /\ cache' = Put(cache, sid, session)
    /\ log' = [log EXCEPT ![sid] = entries]
    /\ ret' = Result(op, sid, error, FALSE)

NotFound(sid, op) ==
    /\ ret' = Result(op, sid, "SessionNotFoundError", FALSE)
    /\ UNCHANGED <<db, cache, log>>

\* get(sid) returns None
Missing(sid, expired) == sid \notin DOMAIN Expire(cache, sid, expired) \cup DOMAIN db

\* ------------------------------------------------------- InterviewService
_get_current_topic(session) ==
    LET idx == session.current_question_idx
    IN  IF idx < 0 THEN NoTopic
        ELSE IF idx >= Len(session.selected_topics) THEN NoTopic
        ELSE session.selected_topics[idx + 1]

_format_core_question(session, topic) ==
    <<"core", session.current_question_idx + 1, TotalQuestions,
      TopicName(topic), TopicQuestion(topic)>>

EndMessage == <<"end">>

_current_question_text(session) ==
    IF session.is_followup
      THEN (IF session.current_followup_question # <<>>
              THEN session.current_followup_question ELSE DefaultFollowup)
    ELSE IF _get_current_topic(session) = NoTopic THEN EndMessage
    ELSE _format_core_question(session, _get_current_topic(session))

\* the follow-up is recorded but is_followup is not raised
EnterFollowupNoFlag(session, followup) ==
    [session EXCEPT
        !.is_followup = FALSE,
        !.current_followup_is_ai = followup.is_ai_generated,
        !.current_followup_count = session.current_followup_count + 1,
        !.current_followup_question = followup.followup_question]

\* lines 285-289 and 345-349
EnterFollowup(session, followup) ==
    [session EXCEPT
        !.is_followup = TRUE,
        !.current_followup_is_ai = followup.is_ai_generated,
        !.current_followup_count = session.current_followup_count + 1,
        !.current_followup_question = followup.followup_question]

NextQuestionFinishLate(session) ==
    LET s1 == [session EXCEPT
                  !.current_question_idx = session.current_question_idx + 1,
                  !.is_followup = FALSE,
                  !.current_followup_is_ai = FALSE,
                  !.current_followup_count = 0,
                  !.current_followup_question = <<>>]
    IN  IF s1.current_question_idx > TotalQuestions THEN finish(s1) ELSE s1

\* lines 295-303 and 355-363
NextQuestion(session) ==
    LET s1 == [session EXCEPT
                  !.current_question_idx = session.current_question_idx + 1,
                  !.is_followup = FALSE,
                  !.current_followup_is_ai = FALSE,
                  !.current_followup_count = 0,
                  !.current_followup_question = <<>>]
    IN  IF s1.current_question_idx >= TotalQuestions THEN finish(s1) ELSE s1

\* lines 274-312 and 334-372, after the entry is built
AfterAnswer(sid, session, topic, entry, llm, fail, op) ==
    LET entries == Append(log[sid], entry)
        followup == should_followup(entry.answer, topic,
                                     session.current_followup_count,
                                     entry.depth_score, llm, SeedOf(session.id))
        s2 == IF followup.need_followup THEN EnterFollowup(session, followup)
              ELSE NextQuestion(session)
    IN  IF fail = "append" THEN Raised(sid, session, log[sid], op, "RepositoryError")
        ELSE IF fail = "followup" THEN Raised(sid, session, entries, op, "ProviderError")
        ELSE IF fail = "save" THEN Raised(sid, s2, entries, op, "RepositoryError")
        ELSE Committed(sid, s2, entries, op, is_finished(s2))

_process_core_answer(sid, session, topic, answer, llm, fail) ==
    AfterAnswer(sid, session, topic,
                process_core_answer(answer, topic, _format_core_question(session, topic)),
                llm, fail, "process_answer")

\* the follow-up answer is handled with the follow-up count taken as 0
_process_followup_answerNoCount(sid, session, topic, answer, llm, fail) ==
    AfterAnswer(sid, [session EXCEPT !.current_followup_count = 0], topic,
                process_followup_answer(
                    answer, topic,
                    IF session.current_followup_question # <<>>
                      THEN session.current_followup_question ELSE <<"followup">>,
                    session.current_followup_is_ai),
                llm, fail, "process_answer")

_process_followup_answer(sid, session, topic, answer, llm, fail) ==
    AfterAnswer(sid, session, topic,
                process_followup_answer(
                    answer, topic,
                    IF session.current_followup_question # <<>>
                      THEN session.current_followup_question ELSE <<"followup">>,
                    session.current_followup_is_ai),
                llm, fail, "process_answer")

\* lines 88-94 and 113-119: no current topic
NoTopicLeft(sid, session, fail, op) ==
    IF fail = "save" THEN Raised(sid, finish(session), log[sid], op, "RepositoryError")
    ELSE Committed(sid, finish(session), log[sid], op, TRUE)

StartSession(sid, selected, fail) ==
    /\ sid \notin DOMAIN db
    /\ sid \notin DOMAIN cache
    /\ IF fail = "save"
         THEN /\ ret' = Result("start_session", sid, "RepositoryError", FALSE)
              /\ UNCHANGED <<db, cache, log>>
         ELSE Committed(sid, NewSession(sid, selected), log[sid], "start_session", FALSE)
    /\ before' = <<>>
    /\ UNCHANGED <<fu, sq, webvars, min_answer_length, repo, got>>

process_answer(sid, answer, llm, fail, expired) ==
    /\ IF Missing(sid, expired) THEN NotFound(sid, "process_answer") /\ before' = <<>>
       ELSE LET session == Fetch(sid, expired)
                topic == _get_current_topic(session)
            IN  IF is_finished(session)
                  THEN /\ Raised(sid, session, log[sid], "process_answer",
                                 "SessionAlreadyCompletedError")
                       /\ before' = <<>>
                ELSE /\ before' = Snapshot(session, log[sid])
                     /\ IF topic = NoTopic
                          THEN NoTopicLeft(sid, session, fail, "process_answer")
                        ELSE IF session.is_followup
                          THEN _process_followup_answer(sid, session, topic, answer, llm, fail)
                        ELSE _process_core_answer(sid, session, topic, answer, llm, fail)
    /\ UNCHANGED <<fu, sq, webvars, min_answer_length, repo, got>>

\* process_answer while the log is short enough for another row
ProcessAnswer(sid, answer, llm, fail, expired) ==
    /\ Len(log[sid]) < MaxLogLen
    /\ process_answer(sid, answer, llm, fail, expired)

SkipEntry(session, topic) ==
    [topic |-> TopicName(topic),
     question_type |-> IF session.is_followup THEN "followup_skip" ELSE "core",
     question |-> _current_question_text(session),
     answer |-> IF session.is_followup THEN SkipFollowupAnswer ELSE SkipAnswer,
     depth_score |-> 0,
     is_ai_generated |-> session.current_followup_is_ai]

\* the follow-up count survives the skip
SkipAdvanceKeepsCount(session) ==
    LET s1 == IF session.is_followup
                THEN [session EXCEPT
                        !.is_followup = FALSE,
                        !.current_followup_question = <<>>,
                        !.current_followup_is_ai = FALSE]
              ELSE session
        s2 == [s1 EXCEPT !.current_question_idx = s1.current_question_idx + 1]
    IN  IF s2.current_question_idx >= TotalQuestions THEN finish(s2) ELSE s2

\* lines 133-142
SkipAdvance(session) ==
    LET s1 == IF session.is_followup
                THEN [session EXCEPT
                        !.is_followup = FALSE,
                        !.current_followup_count = 0,
                        !.current_followup_question = <<>>,
                        !.current_followup_is_ai = FALSE]
              ELSE session
        s2 == [s1 EXCEPT !.current_question_idx = s1.current_question_idx + 1]
    IN  IF s2.current_question_idx >= TotalQuestions THEN finish(s2) ELSE s2

skip_question(sid, fail, expired) ==
    /\ IF Missing(sid, expired) THEN NotFound(sid, "skip_question") /\ before' = <<>>
       ELSE LET session == Fetch(sid, expired)
                topic == _get_current_topic(session)
            IN  IF is_finished(session)
                  THEN /\ Raised(sid, session, log[sid], "skip_question",
                                 "SessionAlreadyCompletedError")
                       /\ before' = <<>>
                ELSE /\ before' = Snapshot(session, log[sid])
                     /\ IF topic = NoTopic
                          THEN NoTopicLeft(sid, session, fail, "skip_question")
                        ELSE IF fail = "append"
                          THEN Raised(sid, session, log[sid], "skip_question",
                                      "RepositoryError")
                        ELSE IF fail = "save"
                          THEN Raised(sid, SkipAdvance(session),
                                      Append(log[sid], SkipEntry(session, topic)),
                                      "skip_question", "RepositoryError")
                        ELSE Committed(sid, SkipAdvance(session),
                                       Append(log[sid], SkipEntry(session, topic)),
                                       "skip_question",
                                       is_finished(SkipAdvance(session)))
    /\ UNCHANGED <<fu, sq, webvars, min_answer_length, repo, got>>

\* skip_question while the log is short enough for another row
SkipQuestion(sid, fail, expired) ==
    /\ Len(log[sid]) < MaxLogLen
    /\ skip_question(sid, fail, expired)

\* "追问" in last.question_type
IsFollowupType(question_type) ==
    question_type \in {"followup_answer", "followup_skip"}

UndoStateNoClamp(session, last) ==
    LET s1 == IF IsFollowupType(last.question_type)
                THEN [session EXCEPT
                        !.is_followup = TRUE,
                        !.current_followup_question = last.question,
                        !.current_followup_is_ai = last.is_ai_generated,
                        !.current_followup_count =
                            Max(0, session.current_followup_count - 1)]
              ELSE [session EXCEPT
                        !.current_question_idx = session.current_question_idx - 1,
                        !.is_followup = FALSE,
                        !.current_followup_is_ai = FALSE,
                        !.current_followup_count = 0,
                        !.current_followup_question = <<>>]
    IN  IF is_finished(s1) THEN [s1 EXCEPT !.status = "active"] ELSE s1

\* lines 163-176
UndoState(session, last) ==
    LET s1 == IF IsFollowupType(last.question_type)
                THEN [session EXCEPT
                        !.is_followup = TRUE,
                        !.current_followup_question = last.question,
                        !.current_followup_is_ai = last.is_ai_generated,
                        !.current_followup_count =
                            Max(0, session.current_followup_count - 1)]
              ELSE [session EXCEPT
                        !.current_question_idx =
                            Max(0, session.current_question_idx - 1),
                        !.is_followup = FALSE,
                        !.current_followup_is_ai = FALSE,
                        !.current_followup_count = 0,
                        !.current_followup_question = <<>>]
    IN  IF is_finished(s1) THEN [s1 EXCEPT !.status = "active"] ELSE s1

\* the row with the lowest id is deleted
delete_oldest_conversation_entry(entries) == Tail(entries)

\* SessionRepositoryImpl.delete_last_conversation_entry: the rows left
delete_last_conversation_entry(entries) == SubSeq(entries, 1, Len(entries) - 1)

\* the empty log is reported like a missing session
NothingToUndoAsNotFound(sid, session, entries) ==
    Raised(sid, session, entries, "undo_last", "SessionNotFoundError")

\* lines 158-160: delete_last_conversation_entry found no row
NothingToUndo(sid, session, entries) ==
    Raised(sid, session, entries, "undo_last", "NothingToUndoError")

UndoLast(sid, fail, expired) ==
    /\ IF Missing(sid, expired) THEN NotFound(sid, "undo_last")
       ELSE LET session == Fetch(sid, expired)
                entries == log[sid]
                last == entries[Len(entries)]
                rest == delete_last_conversation_entry(entries)
            IN  IF fail = "delete"
                  THEN Raised(sid, session, entries, "undo_last", "RepositoryError")
                ELSE IF entries = <<>>
                  THEN NothingToUndo(sid, session, entries)
                ELSE IF fail = "save"
                  THEN Raised(sid, UndoState(session, last), rest, "undo_last",
                              "RepositoryError")
                ELSE Committed(sid, UndoState(session, last), rest, "undo_last", FALSE)
    /\ before' = <<>>
    /\ UNCHANGED <<fu, sq, webvars, min_answer_length, repo, got>>

\* the status is left as it is
RestartStateKeepsStatus(session) ==
    [session EXCEPT
        !.current_question_idx = 0,
        !.is_followup = FALSE,
        !.current_followup_is_ai = FALSE,
        !.current_followup_count = 0,
        !.current_followup_question = <<>>]

\* lines 191-196
RestartState(session) ==
    [session EXCEPT
        !.current_question_idx = 0,
        !.is_followup = FALSE,
        !.current_followup_is_ai = FALSE,
        !.current_followup_count = 0,
        !.current_followup_question = <<>>,
        !.status = "active"]

\* lines 185-189: delete_last_conversation_entry until it finds no row
RECURSIVE DeleteAllEntries(_)
DeleteAllEntries(entries) ==
    IF entries = <<>> THEN entries
    ELSE DeleteAllEntries(delete_last_conversation_entry(entries))

\* deleted: rows removed before a failing delete call
Restart(sid, fail, deleted, expired) ==
    /\ deleted \in 0..Len(log[sid])
    /\ IF Missing(sid, expired) THEN NotFound(sid, "restart") /\ before' = <<>>
       ELSE LET session == Fetch(sid, expired)
            IN  /\ before' = Snapshot(session, log[sid])
                /\ IF fail = "delete"
                     THEN Raised(sid, session,
                                 SubSeq(log[sid], 1, Len(log[sid]) - deleted),
                                 "restart", "RepositoryError")
                   ELSE IF fail = "save"
                     THEN Raised(sid, RestartState(session),
                                 DeleteAllEntries(log[sid]), "restart",
                                 "RepositoryError")
                   ELSE Committed(sid, RestartState(session),
                                  DeleteAllEntries(log[sid]), "restart", FALSE)
    /\ UNCHANGED <<fu, sq, webvars, min_answer_length, repo, got>>

\* InterviewService.get_messages: reads the session and its rows; the list
\* of messages it builds is not kept
GetMessages(sid, expired) ==
    /\ IF Missing(sid, expired) THEN NotFound(sid, "get_messages")
       ELSE LET session == Fetch(sid, expired)
            IN  /\ ret' = Result("get_messages", sid, "ok", is_finished(session))
                /\ cache' = Put(cache, sid, session)
                /\ UNCHANGED <<db, log>>
    /\ before' = <<>>
    /\ UNCHANGED <<fu, sq, webvars, min_answer_length, repo, got>>

Without(f, k) == [x \in DOMAIN f \ {k} |-> f[x]]

\* the cache entry outlives the row
deleteKeepsCacheEntry(c, sid) == c

\* lines 91-92: SessionCache.delete after the transaction
deleteCacheEntry(c, sid) == Without(c, sid)

\* SessionService.delete -> SessionRepositoryImpl.delete: the row goes, its
\* conversation_logs rows with it (cascade), then the cache entry
DeleteSession(sid, fail) ==
    /\ IF fail = "delete"
         THEN /\ ret' = Result("delete", sid, "RepositoryError", FALSE)
              /\ UNCHANGED <<db, cache, log>>
       ELSE IF sid \notin DOMAIN db
         THEN /\ ret' = Result("delete", sid, "False", FALSE)
              /\ UNCHANGED <<db, cache, log>>
       ELSE /\ db' = Without(db, sid)
            /\ log' = [log EXCEPT ![sid] = <<>>]
            /\ cache' = deleteCacheEntry(cache, sid)
            /\ ret' = Result("delete", sid, "ok", FALSE)
    /\ before' = <<>>
    /\ UNCHANGED <<fu, sq, webvars, min_answer_length, repo, got>>

\* ---------------------------------------------------- question selector
\* (domain/services/question_selector.py and InterviewService._select_topics)
\* A catalog topic is [name, scene, edu_type]; scenes and education types
\* are numbered.  random.Random(seed) is a fixed function of the seed: the
\* generator's state is a number, a draw below n is state % n and leaves
\* state \div n, so that the seeds enumerate the sequences of draws.
NumScenes == 2
NumEduTypes == 2
MaxSelectorSeed == 23

SceneList == [i \in 1..NumScenes |-> i]
EduTypeList == [i \in 1..NumEduTypes |-> i]

Digit(n) == <<"0", "1", "2", "3", "4", "5", "6", "7", "8", "9">>[n + 1]

CatalogTopic(scene, edu) ==
    [name |-> <<Digit(scene), "-", Digit(edu)>>, scene |-> scene, edu_type |-> edu]

InSeq(x, seq) == \E i \in 1..Len(seq) : seq[i] = x

\* random.Random.choice and the state it leaves
RngPick(rng, seq) == seq[(rng % Len(seq)) + 1]
RngNext(rng, n) == rng \div n

\* lines 35-40, from scenes[i] on; st = [selected, rng]
RECURSIVE SelectBySceneStopsEarly(_, _, _, _, _)
SelectBySceneStopsEarly(topics, scenes, total_questions, st, i) ==
    IF i > Len(scenes) \/ Len(st.selected) + 1 >= total_questions THEN st
    ELSE LET candidates == SelectSeq(topics, LAMBDA t : t.scene = scenes[i])
         IN  IF candidates = <<>>
               THEN SelectBySceneStopsEarly(topics, scenes, total_questions, st, i + 1)
             ELSE SelectBySceneStopsEarly(topics, scenes, total_questions,
                      [selected |-> Append(st.selected, RngPick(st.rng, candidates)),
                       rng |-> RngNext(st.rng, Len(candidates))],
                      i + 1)

RECURSIVE SelectByScene(_, _, _, _, _)
SelectByScene(topics, scenes, total_questions, st, i) ==
    IF i > Len(scenes) \/ Len(st.selected) >= total_questions THEN st
    ELSE LET candidates == SelectSeq(topics, LAMBDA t : t.scene = scenes[i])
         IN  IF candidates = <<>>
               THEN SelectByScene(topics, scenes, total_questions, st, i + 1)
             ELSE SelectByScene(topics, scenes, total_questions,
                      [selected |-> Append(st.selected, RngPick(st.rng, candidates)),
                       rng |-> RngNext(st.rng, Len(candidates))],
                      i + 1)

\* lines 46-55; st = [filled, rng]
RECURSIVE FillEduGaps(_, _, _, _, _)
FillEduGaps(topics, total_questions, selected, needed_edu, st) ==
    IF needed_edu = <<>> \/ Len(selected) + Len(st.filled) >= total_questions THEN st
    ELSE LET edu == Head(needed_edu)
             candidates ==
                 SelectSeq(topics, LAMBDA t : /\ t.edu_type = edu
                                              /\ ~InSeq(t, selected)
                                              /\ ~InSeq(t, st.filled))
         IN  IF candidates = <<>>
               THEN FillEduGaps(topics, total_questions, selected, Tail(needed_edu), st)
             ELSE FillEduGaps(topics, total_questions, selected, Tail(needed_edu),
                      [filled |-> Append(st.filled, RngPick(st.rng, candidates)),
                       rng |-> RngNext(st.rng, Len(candidates))])

\* list.remove(x): drops the first element equal to x
RECURSIVE Remove(_, _)
Remove(seq, x) ==
    IF seq = <<>> THEN <<>>
    ELSE IF Head(seq) = x THEN Tail(seq)
    ELSE <<Head(seq)>> \o Remove(Tail(seq), x)

\* the chosen topic stays among the candidates
RECURSIVE FillRemainingKeepsChosen(_, _, _, _)
FillRemainingKeepsChosen(total_questions, selected, remaining, st) ==
    IF Len(selected) + Len(st.filled) >= total_questions \/ remaining = <<>> THEN st
    ELSE LET chosen == RngPick(st.rng, remaining)
         IN  FillRemainingKeepsChosen(total_questions, selected, remaining,
                 [filled |-> Append(st.filled, chosen),
                  rng |-> RngNext(st.rng, Len(remaining))])

\* lines 59-62; st = [filled, rng]
RECURSIVE FillRemaining(_, _, _, _)
FillRemaining(total_questions, selected, remaining, st) ==
    IF Len(selected) + Len(st.filled) >= total_questions \/ remaining = <<>> THEN st
    ELSE LET chosen == RngPick(st.rng, remaining)
         IN  FillRemaining(total_questions, selected, Remove(remaining, chosen),
                 [filled |-> Append(st.filled, chosen),
                  rng |-> RngNext(st.rng, Len(remaining))])

Swap(seq, i, j) == [seq EXCEPT ![i] = seq[j], ![j] = seq[i]]

\* random.Random.shuffle: for i = len-1 down to 1, swap x[i] with x[j],
\* j drawn below i+1 (0-based); i is 1-based here
RECURSIVE Shuffle(_, _, _)
Shuffle(seq, rng, i) ==
    IF i <= 1 THEN seq
    ELSE Shuffle(Swap(seq, i, (rng % i) + 1), RngNext(rng, i), i - 1)

select_questions(topics, scenes, edu_types, total_questions, seed) ==
    LET byScene == SelectByScene(topics, scenes, total_questions,
                                 [selected |-> <<>>, rng |-> seed], 1)
        selected == byScene.selected
        needed_edu ==
            SelectSeq(edu_types,
                      LAMBDA e : ~\E i \in 1..Len(selected) : selected[i].edu_type = e)
        gaps == FillEduGaps(topics, total_questions, selected, needed_edu,
                            [filled |-> <<>>, rng |-> byScene.rng])
        remaining == SelectSeq(topics, LAMBDA t : /\ ~InSeq(t, selected)
                                                  /\ ~InSeq(t, gaps.filled))
        rest == FillRemaining(total_questions, selected, remaining, gaps)
        all == selected \o rest.filled
    IN  Shuffle(all, rest.rng, Len(all))

\* lines 220-224: base topics appended while filtered is short
RECURSIVE PadAllowsRepeats(_, _, _)
PadAllowsRepeats(filtered, base, total_questions) ==
    IF base = <<>> THEN filtered
    ELSE LET f1 == Append(filtered, Head(base))
         IN  IF Len(f1) >= total_questions THEN f1
             ELSE PadAllowsRepeats(f1, Tail(base), total_questions)

RECURSIVE Pad(_, _, _)
Pad(filtered, base, total_questions) ==
    IF base = <<>> THEN filtered
    ELSE LET f1 == IF ~InSeq(Head(base), filtered) THEN Append(filtered, Head(base))
                   ELSE filtered
         IN  IF Len(f1) >= total_questions THEN f1
             ELSE Pad(f1, Tail(base), total_questions)

Take(seq, n) == SubSeq(seq, 1, Min(n, Len(seq)))

\* names is the topics argument; <<>> stands for both None and the empty list
_select_topics(all_topics, scenes, edu_types, total_questions, names, seed) ==
    IF names # <<>>
      THEN LET wanted == { Strip(names[i]) : i \in { j \in 1..Len(names) :
                                                      Strip(names[j]) # <<>> } }
               filtered == SelectSeq(all_topics, LAMBDA t : t.name \in wanted)
           IN  IF Len(filtered) >= total_questions THEN Take(filtered, total_questions)
               ELSE Take(Pad(filtered,
                             select_questions(all_topics, scenes, edu_types,
                                              total_questions, seed),
                             total_questions),
                         total_questions)
    ELSE select_questions(all_topics, scenes, edu_types, total_questions, seed)


\* ------------------------------------------------------------ web handler
\* InterviewHandler (ui/web_handler.py) drives the synchronous
\* InterviewEngine (core/interview_engine.py) on one InterviewSession, which
\* SessionManager (services/session_manager.py) keeps in memory and mirrors
\* into data.Database.  The handler's session, the engine's session and the
\* manager's _sessions entry are one object; sessions of other handlers are
\* not tracked.  The chat history a caller passes in and gets back, and the
\* exported file, are not part of the state; the last message the handler
\* appended is kept in hret.

\* capacity of the undo stack: deque(maxlen=10), scaled so that an interview
\* of TotalQuestions questions can overflow it
UndoStackMaxlen == 2

WebSessionId == 1
Now == <<"now">>

\* the engine's processors and follow-up generator, per sections 4.2 and 4.3
CoreProcessCoreAnswer(answer, topic) ==
    process_core_answer(answer, topic, TopicQuestion(topic))

CoreProcessFollowupAnswer(session, answer, topic) ==
    process_followup_answer(answer, topic, session.current_followup_question,
                            session.current_followup_is_ai)

CoreShouldFollowup(answer, topic, session, depth_score, llm, seed) ==
    should_followup(answer, topic, session.current_followup_count, depth_score,
                    llm, seed)

InterviewSession(session_id, selected) ==
    [session_id |-> session_id,
     end_time |-> <<>>,
     is_finished |-> FALSE,
     current_question_idx |-> 0,
     is_followup |-> FALSE,
     current_followup_is_ai |-> FALSE,
     current_followup_count |-> 0,
     current_followup_question |-> <<>>,
     selected_topics |-> selected,
     conversation_log |-> <<>>]

\* Database.update_session as SessionManager.update_session calls it; the
\* empty end_time is stored as NULL, both written <<>>
UpdateRow(database, session) ==
    [database EXCEPT !.row =
        <<[session_id |-> session.session_id,
           current_question_idx |-> session.current_question_idx,
           selected_topics |-> session.selected_topics,
           is_finished |-> IF session.is_finished THEN 1 ELSE 0,
           end_time |-> session.end_time,
           is_followup |-> IF session.is_followup THEN 1 ELSE 0,
           current_followup_is_ai |-> IF session.current_followup_is_ai THEN 1 ELSE 0,
           current_followup_count |-> session.current_followup_count,
           current_followup_question |-> session.current_followup_question]>>]

\* the engine's view of one call: the session object and the database
World(session, database) == [session |-> session, database |-> database]

get_current_topic(session) ==
    IF session.current_question_idx < Len(session.selected_topics)
      THEN session.selected_topics[session.current_question_idx + 1]
    ELSE NoTopic

_move_to_next_question(w) ==
    LET s1 == [w.session EXCEPT
                  !.current_question_idx = w.session.current_question_idx + 1,
                  !.current_followup_count = 0,
                  !.current_followup_is_ai = FALSE,
                  !.current_followup_question = <<>>,
                  !.is_followup = FALSE]
        s2 == IF s1.current_question_idx >= TotalQuestions
                THEN [s1 EXCEPT !.is_finished = TRUE, !.end_time = Now]
              ELSE s1
    IN  World(s2, UpdateRow(w.database, s2))

AppendLog(session, entry) ==
    [session EXCEPT !.conversation_log = Append(session.conversation_log, entry)]

\* InterviewEngine.process_answer
EngineProcessAnswer(w, answer, llm, seed) ==
    LET session == w.session
        topic == get_current_topic(session)
        entry == IF session.is_followup
                   THEN CoreProcessFollowupAnswer(session, answer, topic)
                 ELSE CoreProcessCoreAnswer(answer, topic)
        s1 == AppendLog(session, entry)
        followup == CoreShouldFollowup(answer, topic, session, entry.depth_score,
                                       llm, seed)
        s2 == [s1 EXCEPT
                  !.is_followup = TRUE,
                  !.current_followup_is_ai = followup.is_ai_generated,
                  !.current_followup_count =
                      IF session.is_followup THEN session.current_followup_count + 1
                      ELSE 1,
                  !.current_followup_question = followup.followup_question]
    IN  IF session.is_finished \/ topic = NoTopic THEN w
        ELSE IF followup.need_followup THEN World(s2, UpdateRow(w.database, s2))
        ELSE _move_to_next_question(World(s1, w.database))

\* InterviewEngine.skip_question: the entry goes to the in-memory log only
EngineSkipQuestion(w) ==
    LET session == w.session
        topic == get_current_topic(session)
        entry == [topic |-> TopicName(topic),
                  question_type |-> "core",
                  question |-> TopicQuestion(topic),
                  answer |-> SkipAnswer,
                  depth_score |-> 0,
                  is_ai_generated |-> FALSE]
        s1 == IF topic # NoTopic THEN AppendLog(session, entry) ELSE session
    IN  _move_to_next_question(World([s1 EXCEPT !.is_followup = FALSE], w.database))

\* SessionManager.add_conversation_log: memory and database
add_conversation_log(w, entry) ==
    World(AppendLog(w.session, entry),
          [w.database EXCEPT !.logs = Append(w.database.logs, entry)])

\* InterviewEngine.skip_round
EngineSkipRound(w) ==
    LET session == w.session
        topic == get_current_topic(session)
        entry == [topic |-> TopicName(topic),
                  question_type |-> "followup_skip",
                  question |-> IF session.current_followup_question # <<>>
                                 THEN session.current_followup_question
                               ELSE <<"followup">>,
                  answer |-> SkipFollowupAnswer,
                  depth_score |-> 0,
                  is_ai_generated |-> session.current_followup_is_ai]
        w1 == IF topic # NoTopic THEN add_conversation_log(w, entry) ELSE w
    IN  IF ~session.is_followup THEN EngineSkipQuestion(w)
        ELSE _move_to_next_question(
                 World([w1.session EXCEPT
                           !.is_followup = FALSE,
                           !.current_followup_count = 0,
                           !.current_followup_question = <<>>],
                       w1.database))

\* --------------------------------------------------------- undo snapshots
_capture_session_state(session) ==
    [session_id |-> session.session_id,
     current_question_idx |-> session.current_question_idx,
     is_finished |-> session.is_finished,
     end_time |-> session.end_time,
     is_followup |-> session.is_followup,
     current_followup_is_ai |-> session.current_followup_is_ai,
     current_followup_count |-> session.current_followup_count,
     current_followup_question |-> session.current_followup_question]

\* a list that keeps growing
PushUnbounded(stack, session) ==
    Append(stack, [session_state_before |-> _capture_session_state(session),
                   log_count_before |-> Len(session.conversation_log)])

\* deque(maxlen).append: a full deque drops its oldest element
_push_undo_snapshot(stack, session) ==
    LET snapshot == [session_state_before |-> _capture_session_state(session),
                     log_count_before |-> Len(session.conversation_log)]
    IN  IF Len(stack) >= UndoStackMaxlen THEN Append(Tail(stack), snapshot)
        ELSE Append(stack, snapshot)

\* Database.rollback_session_state: one transaction
rollback_session_state(database, delete_log_count, session_update) ==
    [row |-> <<[database.row[1] EXCEPT
                   !.current_question_idx = session_update.current_question_idx,
                   !.is_finished = IF session_update.is_finished THEN 1 ELSE 0,
                   !.end_time = session_update.end_time,
                   !.is_followup = IF session_update.is_followup THEN 1 ELSE 0,
                   !.current_followup_is_ai =
                       IF session_update.current_followup_is_ai THEN 1 ELSE 0,
                   !.current_followup_count = session_update.current_followup_count,
                   !.current_followup_question =
                       session_update.current_followup_question]>>,
     logs |-> SubSeq(database.logs, 1, Len(database.logs) - delete_log_count)]

\* the follow-up fields are left as they are
RestoreMemoryKeepsFollowup(session, target_log_count, session_state) ==
    [session EXCEPT
        !.conversation_log = SubSeq(session.conversation_log, 1, target_log_count),
        !.current_question_idx = session_state.current_question_idx,
        !.is_finished = session_state.is_finished,
        !.end_time = IF session_state.is_finished THEN session_state.end_time ELSE <<>>]

\* the in-memory part of rollback_session
RestoreMemory(session, target_log_count, session_state) ==
    [session EXCEPT
        !.conversation_log = SubSeq(session.conversation_log, 1, target_log_count),
        !.current_question_idx = session_state.current_question_idx,
        !.is_finished = session_state.is_finished,
        !.end_time = IF session_state.is_finished THEN session_state.end_time ELSE <<>>,
        !.is_followup = session_state.is_followup,
        !.current_followup_is_ai = session_state.current_followup_is_ai,
        !.current_followup_count = session_state.current_followup_count,
        !.current_followup_question = session_state.current_followup_question]

RollbackResult(ok, w) == [ok |-> ok, session |-> w.session, database |-> w.database]

\* memory is rolled back whatever the database says
rollback_sessionMemoryFirst(w, target_log_count, session_state, db_fails) ==
    LET current_log_count == Len(w.session.conversation_log)
        restored == RestoreMemory(w.session, Min(target_log_count, current_log_count),
                                  session_state)
    IN  IF target_log_count < 0 \/ target_log_count > current_log_count
          THEN RollbackResult(FALSE, w)
        ELSE IF db_fails THEN RollbackResult(FALSE, World(restored, w.database))
        ELSE RollbackResult(TRUE,
                 World(restored,
                       rollback_session_state(w.database,
                           Min(current_log_count - target_log_count,
                               Len(w.database.logs)),
                           [session_state EXCEPT
                               !.end_time = IF session_state.is_finished
                                              THEN session_state.end_time
                                            ELSE <<>>])))

\* SessionManager.rollback_session; db_fails: rollback_session_state
\* returns False
rollback_session(w, target_log_count, session_state, db_fails) ==
    LET current_log_count == Len(w.session.conversation_log)
    IN  IF target_log_count < 0 \/ target_log_count > current_log_count
          THEN RollbackResult(FALSE, w)
        ELSE IF db_fails THEN RollbackResult(FALSE, w)
        ELSE RollbackResult(TRUE,
                 World(RestoreMemory(w.session, target_log_count, session_state),
                       rollback_session_state(w.database,
                           Min(current_log_count - target_log_count,
                               Len(w.database.logs)),
                           [session_state EXCEPT
                               !.end_time = IF session_state.is_finished
                                              THEN session_state.end_time
                                            ELSE <<>>])))


\* ------------------------------------------------------------------ inputs
\* answers given to the service: blank, short but keyword-dense (padded,
\* mixed case), and long without keywords
Answers ==
    { <<" ">>,
      <<" ", "E", "x", "p", "q", "r">>,
      Rep("a", MinAnswerLength) }

\* arguments of direct should_followup calls
FollowupAnswers ==
    Answers \cup { <<>>, <<"a", "a">>, Rep("a", MinAnswerLength - 1) \o <<" ">> }
FollowupCounts == 0..(MaxFollowupsPerQuestion + 1)
DepthScores == {0, MaxDepthScore - 1, MaxDepthScore, MaxDepthScore + 1}

LlmResults == {NoLlm, Nothing, <<>>, LlmFollowup}

\* outcomes of _select_topics considered: total_questions distinct catalog
\* topics (or as many as the catalog has), in catalog order from the front
\* and in reverse order from the back
SelectionSize == Min(TotalQuestions, NumTopics)

Selections ==
    { [i \in 1..SelectionSize |-> i],
      [i \in 1..SelectionSize |-> NumTopics + 1 - i] }

Init ==
    /\ db = <<>>
    /\ cache = <<>>
    /\ log = [sid \in SessionIds |-> <<>>]
    /\ ret = Result("none", 0, "ok", FALSE)
    /\ before = <<>>
    /\ fu = <<>>
    /\ sq = <<>>
    /\ hsession = <<>>
    /\ undo_stack = <<>>
    /\ legacy_db = [row |-> <<>>, logs |-> <<>>]
    /\ hret = [op |-> "none", message |-> "none"]
    /\ undoable = <<>>
    /\ min_answer_length = MinAnswerLength
    /\ repo = [row |-> <<>>, cached |-> <<>>, saved |-> <<>>]
    /\ got = <<>>

Next ==
    \/ \E sid \in SessionIds, sel \in Selections :
          StartSession(sid, sel, "none")
    \/ \E sid \in SessionIds, a \in Answers, l \in LlmResults, x \in BOOLEAN :
          ProcessAnswer(sid, a, l, "none", x)
    \/ \E sid \in SessionIds, x \in BOOLEAN : SkipQuestion(sid, "none", x)
    \/ \E sid \in SessionIds, x \in BOOLEAN : UndoLast(sid, "none", x)
    \/ \E sid \in SessionIds, x \in BOOLEAN : Restart(sid, "none", 0, x)

Spec == Init /\ [][Next]_vars

\* ------------------------------------------- repository and provider faults
\* One fault at a time: a call may fail at one of its repository (or provider)
\* calls; after a failed call the store is only re-read (with or without the
\* cache entry) or the session restarted.
Faulted == ret.out \in {"RepositoryError", "ProviderError"}

FaultyStartSession ==
    /\ ~Faulted
    /\ \E sid \in SessionIds, sel \in Selections, f \in {"none", "save"} :
          StartSession(sid, sel, f)

FaultyProcessAnswer ==
    /\ ~Faulted
    /\ \E sid \in SessionIds, a \in Answers, l \in LlmResults,
          f \in {"none", "append", "followup", "save"}, x \in BOOLEAN :
          ProcessAnswer(sid, a, l, f, x)

FaultySkipQuestion ==
    /\ ~Faulted
    /\ \E sid \in SessionIds, f \in {"none", "append", "save"}, x \in BOOLEAN :
          SkipQuestion(sid, f, x)

FaultyUndoLast ==
    /\ ~Faulted
    /\ \E sid \in SessionIds, f \in {"none", "delete", "save"}, x \in BOOLEAN :
          UndoLast(sid, f, x)

FaultyRestart ==
    /\ ~Faulted
    /\ \E sid \in SessionIds, f \in {"delete", "save"}, k \in 0..MaxLogLen,
          x \in BOOLEAN :
          Restart(sid, f, k, x)

NextFail ==
    \/ FaultyStartSession
    \/ FaultyProcessAnswer
    \/ FaultySkipQuestion
    \/ FaultyUndoLast
    \/ FaultyRestart
    \/ \E sid \in SessionIds, x \in BOOLEAN : Restart(sid, "none", 0, x)

SpecFail == Init /\ [][NextFail]_vars

\* ------------------------------------------- should_followup called directly
CallShouldFollowup(answer, topic, count, depth, llm, seed) ==
    /\ fu' = <<[answer |-> answer, topic |-> topic, current_followup_count |-> count,
                depth_score |-> depth, llm |-> llm, seed |-> seed,
                result |-> should_followup(answer, topic, count, depth, llm, seed)]>>
    /\ UNCHANGED <<servicevars, sq, webvars, min_answer_length, repo, got>>

NextFollowup ==
    \E a \in FollowupAnswers, t \in Topics, c \in FollowupCounts,
       d \in DepthScores, l \in LlmResults, seed \in Seeds :
        CallShouldFollowup(a, t, c, d, l, seed)

SpecFollowup == Init /\ [][NextFollowup]_vars

\* ------------------------------ the service, or should_followup on its own
\* a behaviour is either a history of service calls or one direct call of
\* should_followup
ServiceCall == fu = <<>> /\ Next

DirectFollowupCall == fu = <<>> /\ db = <<>> /\ cache = <<>> /\ NextFollowup

NextServiceOrFollowup == ServiceCall \/ DirectFollowupCall

SpecServiceOrFollowup == Init /\ [][NextServiceOrFollowup]_vars

\* ------------------------------------------- reading and deleting sessions
NextRepo ==
    \/ Next
    \/ \E sid \in SessionIds, x \in BOOLEAN : GetMessages(sid, x)
    \/ \E sid \in SessionIds : DeleteSession(sid, "none")

SpecRepo == Init /\ [][NextRepo]_vars

\* ------------------------------------------------ two sessions in one store
\* The sessions table, the conversation_logs table and the cache hold two
\* sessions; every call names one of them.  One long answer, one selection
\* and a provider that always asks are enough to move each session through
\* follow-up, completion, undo and restart (a skip ends a round early).
BothSessionIds == {1, 2}

InitBoth ==
    /\ db = <<>>
    /\ cache = <<>>
    /\ log = [sid \in BothSessionIds |-> <<>>]
    /\ ret = Result("none", 0, "ok", FALSE)
    /\ before = <<>>
    /\ fu = <<>>
    /\ sq = <<>>
    /\ hsession = <<>>
    /\ undo_stack = <<>>
    /\ legacy_db = [row |-> <<>>, logs |-> <<>>]
    /\ hret = [op |-> "none", message |-> "none"]
    /\ undoable = <<>>
    /\ min_answer_length = MinAnswerLength
    /\ repo = [row |-> <<>>, cached |-> <<>>, saved |-> <<>>]
    /\ got = <<>>

\* turns are accepted while the table holds fewer than MaxLogLen rows
RowsOfBoth == Len(log[1]) + Len(log[2])

NextBoth ==
    \/ \E sid \in BothSessionIds :
          StartSession(sid, [i \in 1..SelectionSize |-> i], "none")
    \/ \E sid \in BothSessionIds :
          /\ RowsOfBoth < MaxLogLen
          /\ ProcessAnswer(sid, Rep("a", MinAnswerLength), LlmFollowup, "none", FALSE)
    \/ \E sid \in BothSessionIds :
          /\ RowsOfBoth < MaxLogLen
          /\ SkipQuestion(sid, "none", FALSE)
    \/ \E sid \in BothSessionIds, x \in BOOLEAN : UndoLast(sid, "none", x)
    \/ \E sid \in BothSessionIds : Restart(sid, "none", 0, FALSE)

SpecBoth == InitBoth /\ [][NextBoth]_vars

\* --------------------------------------------- API requests handled at once
\* The routes send_message, skip_question and undo_last await the service
\* directly; a request runs until it awaits the database (append, delete or
\* save) and other requests run meanwhile.  got holds the requests in flight,
\* oldest first: [op, pc, topic, entry], pc being the database call awaited.
\* The cache entry lives through the requests, so every request works on the
\* one cached Session object, cache[sid].
Request(op, pc, topic, entry) ==
    [op |-> op, pc |-> pc, topic |-> topic, entry |-> entry]

RemoveAt(seq, i) == SubSeq(seq, 1, i - 1) \o SubSeq(seq, i + 1, Len(seq))

\* the request ends here: with an error, or after its save
Respond(sid, op, out, finished) ==
    ret' = Result(op, sid, out, finished)

\* a turn up to its first database call: get, the finished check, the entry
AcceptTurn(sid, op, answer) ==
    /\ Len(got) < 2
    /\ sid \in DOMAIN cache
    /\ Len(log[sid]) + Len(got) < MaxLogLen
    /\ LET session == cache[sid]
           topic == _get_current_topic(session)
           entry ==
               IF op = "skip_question" THEN SkipEntry(session, topic)
               ELSE IF session.is_followup
                 THEN process_followup_answer(
                          answer, topic,
                          IF session.current_followup_question # <<>>
                            THEN session.current_followup_question
                          ELSE <<"followup">>,
                          session.current_followup_is_ai)
               ELSE process_core_answer(answer, topic,
                                        _format_core_question(session, topic))
       IN  IF is_finished(session)
             THEN /\ Respond(sid, op, "SessionAlreadyCompletedError", FALSE)
                  /\ UNCHANGED <<db, cache, log, got>>
           ELSE IF topic = NoTopic
             THEN /\ cache' = Put(cache, sid, finish(session))
                  /\ got' = Append(got, Request(op, "save", topic, <<>>))
                  /\ UNCHANGED <<db, log, ret>>
           ELSE /\ got' = Append(got, Request(op, "append", topic, <<entry>>))
                /\ UNCHANGED <<db, cache, log, ret>>
    /\ UNCHANGED <<before, fu, sq, webvars, min_answer_length, repo>>

\* append_conversation_entry returns: the row is written, the follow-up
\* decision is taken and the Session object is advanced, up to save()
Appended(sid, i, llm) ==
    /\ i \in 1..Len(got)
    /\ got[i].pc = "append"
    /\ LET session == cache[sid]
           entry == got[i].entry[1]
           followup == should_followup(entry.answer, got[i].topic,
                                        session.current_followup_count,
                                        entry.depth_score, llm, SeedOf(session.id))
           advanced ==
               IF got[i].op = "skip_question" THEN SkipAdvance(session)
               ELSE IF followup.need_followup THEN EnterFollowup(session, followup)
               ELSE NextQuestion(session)
       IN  /\ log' = [log EXCEPT ![sid] = Append(log[sid], entry)]
           /\ cache' = Put(cache, sid, advanced)
           /\ got' = [got EXCEPT ![i].pc = "save"]
    /\ UNCHANGED <<db, ret, before, fu, sq, webvars, min_answer_length, repo>>

\* undo_last up to its first database call
AcceptUndo(sid) ==
    /\ Len(got) < 2
    /\ sid \in DOMAIN cache
    /\ got' = Append(got, Request("undo_last", "delete", NoTopic, <<>>))
    /\ UNCHANGED <<servicevars, fu, sq, webvars, min_answer_length, repo>>

\* delete_last_conversation_entry returns
Deleted(sid, i) ==
    /\ i \in 1..Len(got)
    /\ got[i].pc = "delete"
    /\ IF log[sid] = <<>>
         THEN /\ Respond(sid, "undo_last", "NothingToUndoError", FALSE)
              /\ got' = RemoveAt(got, i)
              /\ UNCHANGED <<db, cache, log>>
       ELSE /\ log' = [log EXCEPT ![sid] = delete_last_conversation_entry(log[sid])]
            /\ cache' = Put(cache, sid,
                            UndoState(cache[sid], log[sid][Len(log[sid])]))
            /\ got' = [got EXCEPT ![i].pc = "save"]
            /\ UNCHANGED <<db, ret>>
    /\ UNCHANGED <<before, fu, sq, webvars, min_answer_length, repo>>

\* save() returns: the row holds the Session object as it is now
Saved(sid, i) ==
    /\ i \in 1..Len(got)
    /\ got[i].pc = "save"
    /\ db' = Put(db, sid, ToRow(cache[sid]))
    /\ Respond(sid, got[i].op, "ok", is_finished(cache[sid]))
    /\ got' = RemoveAt(got, i)
    /\ UNCHANGED <<cache, log, before, fu, sq, webvars, min_answer_length, repo>>

NextApi ==
    \/ \E sid \in SessionIds :
          got = <<>> /\ StartSession(sid, [i \in 1..SelectionSize |-> i], "none")
    \/ \E sid \in SessionIds, op \in {"process_answer", "skip_question"} :
          AcceptTurn(sid, op, Rep("a", MinAnswerLength))
    \/ \E sid \in SessionIds, i \in 1..2 : Appended(sid, i, LlmFollowup)
    \/ \E sid \in SessionIds : AcceptUndo(sid)
    \/ \E sid \in SessionIds, i \in 1..2 : Deleted(sid, i)
    \/ \E sid \in SessionIds, i \in 1..2 : Saved(sid, i)

SpecApi == Init /\ [][NextApi]_vars

\* ------------------------------------------ an interview from start to end
\* Answers and skips only, on a log of any length: a long answer, with or
\* without a provider that asks (a skip ends a round early).
NextInterview ==
    \/ \E sid \in SessionIds :
          StartSession(sid, [i \in 1..SelectionSize |-> i], "none")
    \/ \E sid \in SessionIds, l \in {NoLlm, LlmFollowup}, x \in BOOLEAN :
          process_answer(sid, Rep("a", MinAnswerLength), l, "none", x)
    \/ \E sid \in SessionIds, x \in BOOLEAN : skip_question(sid, "none", x)

SpecInterview == Init /\ [][NextInterview]_vars

\* ------------------------------------ the original engine's should_followup
\* src/interview_engine.py: InterviewEngine.should_followup(answer, topic) on
\* a session with the given follow-up count.  ai_followup is what
\* generate_followup returns; seed stands for the state of the module random.
_generate_followup_question(topic, ai_followup, force, seed) ==
    IF ai_followup \notin {Nothing, <<>>}
      THEN FollowupResult(TRUE, ai_followup, TRUE, TRUE)
    ELSE IF force
      THEN FollowupResult(TRUE,
                          RngChoice(seed, IF TopicFollowups(topic) = <<>>
                                            THEN <<DefaultFollowup>>
                                          ELSE TopicFollowups(topic)),
                          FALSE, TRUE)
    ELSE FollowupResult(FALSE, <<>>, FALSE, TRUE)

InterviewEngine_should_followup(answer, topic, followup_count, ai_followup, seed) ==
    LET valid_answer == Strip(answer)
        depth_score == score_depth(valid_answer)
    IN  IF followup_count >= MaxFollowupsPerQuestion
          THEN FollowupResult(FALSE, <<>>, FALSE, FALSE)
        ELSE IF valid_answer = <<>> \/ Len(valid_answer) < MinAnswerLength
          THEN _generate_followup_question(topic, ai_followup, TRUE, seed)
        ELSE IF depth_score >= MaxDepthScore
          THEN FollowupResult(FALSE, <<>>, FALSE, FALSE)
        ELSE _generate_followup_question(topic, ai_followup, FALSE, seed)

\* a long answer with every depth keyword in it
DeepAnswer == <<"E", "x", "p", "q", "r">> \o Rep("a", MinAnswerLength)

CallEngineShouldFollowup(answer, topic, followup_count, ai_followup, seed) ==
    /\ got' = <<[op |-> "should_followup", answer |-> answer, topic |-> topic,
                 followup_count |-> followup_count, ai_followup |-> ai_followup,
                 result |-> InterviewEngine_should_followup(
                                answer, topic, followup_count, ai_followup, seed)]>>
    /\ UNCHANGED <<servicevars, fu, sq, webvars, min_answer_length, repo>>

NextOriginal ==
    \E answer \in FollowupAnswers \cup {DeepAnswer}, topic \in Topics,
       followup_count \in FollowupCounts,
       ai_followup \in {Nothing, <<>>, LlmFollowup}, seed \in Seeds :
        CallEngineShouldFollowup(answer, topic, followup_count, ai_followup, seed)

SpecOriginal == Init /\ [][NextOriginal]_vars

\* ------------------------------------- SessionRepositoryImpl called directly
\* save, get and delete on one session id, with the whole Session entity:
\* the fields the service works on, user_name and created_at.  A time is
\* [second, microsecond]; the sessions table keeps it as text in the format
\* "%Y-%m-%d %H:%M:%S".
Stamp(second, microsecond) == [second |-> second, microsecond |-> microsecond]

strftime(stamp) == <<"ts", stamp.second>>

strptime(text) == Stamp(text[2], 0)

Entity(session, user_name, created_at) ==
    [session |-> session, user_name |-> user_name, created_at |-> created_at]

\* save(): start_time is written when the row is inserted only
SaveRow(entity, row) ==
    [model |-> ToRow(entity.session),
     user_name |-> entity.user_name,
     start_time |-> IF row = <<>> THEN strftime(entity.created_at)
                    ELSE row[1].start_time]

\* _to_domain_session on the whole row
LoadRow(row) ==
    Entity(_to_domain_session(row.model), row.user_name, strptime(row.start_time))

\* sessions given to save(): at any question or completed, waiting for a
\* core answer or a follow-up answer, created on a full second or not
Microseconds == {0, 1}

SavedSessions ==
    { [NewSession(sid, sel) EXCEPT
          !.current_question_idx = idx,
          !.status = IF idx = TotalQuestions THEN "completed" ELSE "active",
          !.is_followup = f,
          !.current_followup_count = IF f THEN 1 ELSE 0,
          !.current_followup_question = IF f THEN DefaultFollowup ELSE <<>>] :
        sid \in SessionIds, sel \in Selections, idx \in 0..TotalQuestions,
        f \in BOOLEAN }

UserNames == {"guest", "named"}

Entities ==
    { Entity(s, user_name, Stamp(0, us)) :
        s \in SavedSessions, user_name \in UserNames, us \in Microseconds }

Got(op, ok, source, returned) ==
    [op |-> op, ok |-> ok, source |-> source, returned |-> returned]

RepositorySave(entity) ==
    /\ repo' = [row |-> <<SaveRow(entity, repo.row)>>,
                cached |-> <<entity>>,
                saved |-> <<entity>>]
    /\ got' = <<Got("save", TRUE, "none", <<>>)>>
    /\ UNCHANGED <<servicevars, fu, sq, webvars, min_answer_length>>

\* expired: the TTLCache entry is gone
RepositoryGet(expired) ==
    /\ LET cached == IF expired THEN <<>> ELSE repo.cached
       IN  IF cached # <<>>
             THEN /\ got' = <<Got("get", TRUE, "cache", cached)>>
                  /\ repo' = repo
           ELSE IF repo.row = <<>>
             THEN /\ got' = <<Got("get", FALSE, "database", <<>>)>>
                  /\ repo' = [repo EXCEPT !.cached = <<>>]
           ELSE /\ got' = <<Got("get", TRUE, "database", <<LoadRow(repo.row[1])>>)>>
                /\ repo' = [repo EXCEPT !.cached = <<LoadRow(repo.row[1])>>]
    /\ UNCHANGED <<servicevars, fu, sq, webvars, min_answer_length>>

RepositoryDelete ==
    /\ IF repo.row = <<>>
         THEN /\ got' = <<Got("delete", FALSE, "none", <<>>)>>
              /\ repo' = repo
       ELSE /\ got' = <<Got("delete", TRUE, "none", <<>>)>>
            /\ repo' = [row |-> <<>>, cached |-> <<>>, saved |-> <<>>]
    /\ UNCHANGED <<servicevars, fu, sq, webvars, min_answer_length>>

NextRepository ==
    \/ \E entity \in Entities : RepositorySave(entity)
    \/ \E expired \in BOOLEAN : RepositoryGet(expired)
    \/ RepositoryDelete

SpecRepository == Init /\ [][NextRepository]_vars

\* ------------------------------------- AnswerProcessor.score_depth called directly
\* An AnswerProcessor is built with a keyword list, an answer is scored, a
\* depth keyword of the list is appended to it and it is scored again.
\* keyword lists: the model's default list, and a list for Greek text
GreekKeywords == << <<"b">>, <<"final_sigma">> >>

KeywordLists == {DepthKeywords, GreekKeywords}

ScoredChars == {"a", "b", "E", "x", "SIGMA"}

ScoredAnswers ==
    {<<>>} \cup { <<c>> : c \in ScoredChars }
           \cup { <<c, d>> : c \in ScoredChars, d \in ScoredChars }
           \cup { <<"b", "a", "SIGMA">>, <<"E", "x", "p", "q", "r">> }

MaxAppends == 2

Scoring(depth_keywords, answer, appended, previous, score) ==
    [op |-> "score_depth", depth_keywords |-> depth_keywords, answer |-> answer,
     appended |-> appended, previous |-> previous, score |-> score]

InitScore ==
    /\ db = <<>>
    /\ cache = <<>>
    /\ log = [sid \in SessionIds |-> <<>>]
    /\ ret = Result("none", 0, "ok", FALSE)
    /\ before = <<>>
    /\ fu = <<>>
    /\ sq = <<>>
    /\ hsession = <<>>
    /\ undo_stack = <<>>
    /\ legacy_db = [row |-> <<>>, logs |-> <<>>]
    /\ hret = [op |-> "none", message |-> "none"]
    /\ undoable = <<>>
    /\ min_answer_length = MinAnswerLength
    /\ repo = [row |-> <<>>, cached |-> <<>>, saved |-> <<>>]
    /\ \E depth_keywords \in KeywordLists, answer \in ScoredAnswers :
          got = <<Scoring(depth_keywords, answer, 0, <<>>, <<>>)>>

ScoreDepthCall ==
    /\ got[1].score = <<>>
    /\ got' = <<[got[1] EXCEPT
                   !.score = <<ScoreDepth(got[1].depth_keywords, got[1].answer)>>]>>
    /\ UNCHANGED <<servicevars, fu, sq, webvars, min_answer_length, repo>>

AppendKeyword(k) ==
    /\ got[1].score # <<>>
    /\ got[1].appended < MaxAppends
    /\ k \in 1..Len(got[1].depth_keywords)
    /\ got' = <<Scoring(got[1].depth_keywords,
                        got[1].answer \o got[1].depth_keywords[k],
                        got[1].appended + 1, got[1].score, <<>>)>>
    /\ UNCHANGED <<servicevars, fu, sq, webvars, min_answer_length, repo>>

NextScore ==
    \/ ScoreDepthCall
    \/ \E k \in 1..Len(DepthKeywords) : AppendKeyword(k)

SpecScore == InitScore /\ [][NextScore]_vars

\* ------------------------------------- the service under other settings
\* min_answer_length as given to FollowupGenerator: 1, the length of the
\* "no valid answer" text, one more, and the default
MinAnswerLengths == {1, Len(NoValidAnswer), Len(NoValidAnswer) + 1, MinAnswerLength}

InitConfigured ==
    /\ db = <<>>
    /\ cache = <<>>
    /\ log = [sid \in SessionIds |-> <<>>]
    /\ ret = Result("none", 0, "ok", FALSE)
    /\ before = <<>>
    /\ fu = <<>>
    /\ sq = <<>>
    /\ hsession = <<>>
    /\ undo_stack = <<>>
    /\ legacy_db = [row |-> <<>>, logs |-> <<>>]
    /\ hret = [op |-> "none", message |-> "none"]
    /\ undoable = <<>>
    /\ min_answer_length \in MinAnswerLengths
    /\ repo = [row |-> <<>>, cached |-> <<>>, saved |-> <<>>]
    /\ got = <<>>

SpecConfigured == InitConfigured /\ [][Next]_vars

\* ------------------------------------------ the selector called directly
\* catalogs: the topics of a set of (scene, education type) cells, in
\* scene-major order
Cells == (1..NumScenes) \X (1..NumEduTypes)
CellAt(k) == <<((k - 1) \div NumEduTypes) + 1, ((k - 1) % NumEduTypes) + 1>>

RECURSIVE CatalogFrom(_, _)
CatalogFrom(cells, k) ==
    IF k > NumScenes * NumEduTypes THEN <<>>
    ELSE (IF CellAt(k) \in cells THEN <<CatalogTopic(CellAt(k)[1], CellAt(k)[2])>>
          ELSE <<>>) \o CatalogFrom(cells, k + 1)

\* small catalogs (at most two topics) and nearly complete ones
Catalogs ==
    { CatalogFrom(cells, 1) :
        cells \in { c \in SUBSET Cells :
                      \/ Cardinality(c) <= 2
                      \/ Cardinality(c) >= Cardinality(Cells) - 1 } }
FullCatalog == CatalogFrom(Cells, 1)
\* the catalogs topics are requested from by name: the full one, and one
\* holding the first scene only
ServiceCatalogs == { FullCatalog, CatalogFrom({c \in Cells : c[1] = 1}, 1) }

TotalQuestionsValues == 0..(TotalQuestions + 2)
SelectorSeeds == 0..MaxSelectorSeed

\* topic names as a caller passes them: padded, blank, unknown
NameLists ==
    { <<>>,
      << <<" ">> >>,
      << <<"9", "-", "9">> >>,
      << <<" ">> \o FullCatalog[1].name \o <<" ">> >>,
      << FullCatalog[Len(FullCatalog)].name, FullCatalog[1].name >>,
      << FullCatalog[2].name, <<"9", "-", "9">>, FullCatalog[2].name >>,
      [i \in 1..Len(FullCatalog) |-> FullCatalog[i].name] }

\* each call is made on a fresh selector: one call per behaviour
CallSelectQuestions(topics, total_questions, seed) ==
    /\ sq = <<>>
    /\ sq' = <<[op |-> "select_questions", topics |-> topics, names |-> <<>>,
                total_questions |-> total_questions, seed |-> seed,
                result |-> select_questions(topics, SceneList, EduTypeList,
                                            total_questions, seed)]>>
    /\ UNCHANGED <<servicevars, fu, webvars, min_answer_length, repo, got>>

CallSelectTopics(topics, total_questions, names, seed) ==
    /\ sq = <<>>
    /\ sq' = <<[op |-> "_select_topics", topics |-> topics, names |-> names,
                total_questions |-> total_questions, seed |-> seed,
                result |-> _select_topics(topics, SceneList, EduTypeList,
                                          total_questions, names, seed)]>>
    /\ UNCHANGED <<servicevars, fu, webvars, min_answer_length, repo, got>>

NextSelect ==
    \/ \E topics \in Catalogs, n \in TotalQuestionsValues, seed \in SelectorSeeds :
          CallSelectQuestions(topics, n, seed)
    \/ \E topics \in ServiceCatalogs, n \in TotalQuestionsValues, names \in NameLists,
          seed \in SelectorSeeds :
          CallSelectTopics(topics, n, names, seed)

SpecSelect == Init /\ [][NextSelect]_vars

\* ------------------------------------------------- QuestionSelector.select
\* core/question_selector.py, the class the synchronous engine uses, on the
\* catalog TOPICS.  The module random is a generator in state seed; pop_order
\* is the order in which set.pop() hands out the education types.
RECURSIVE _select_by_scene(_, _, _, _)
_select_by_scene(topics, scenes, st, i) ==
    IF i > Len(scenes) THEN st
    ELSE LET candidates == SelectSeq(topics, LAMBDA t : t.scene = scenes[i])
         IN  IF candidates = <<>> THEN _select_by_scene(topics, scenes, st, i + 1)
             ELSE _select_by_scene(topics, scenes,
                      [selected |-> Append(st.selected, RngPick(st.rng, candidates)),
                       rng |-> RngNext(st.rng, Len(candidates))],
                      i + 1)

select(topics, scenes, pop_order, total_questions, seed) ==
    LET byScene == _select_by_scene(topics, scenes, [selected |-> <<>>, rng |-> seed], 1)
        needed_edu ==
            SelectSeq(pop_order,
                      LAMBDA e : ~\E i \in 1..Len(byScene.selected) :
                                      byScene.selected[i].edu_type = e)
        gaps == FillEduGaps(topics, total_questions, byScene.selected, needed_edu,
                            [filled |-> <<>>, rng |-> byScene.rng])
        selected == byScene.selected \o gaps.filled
        remaining == SelectSeq(topics, LAMBDA t : ~InSeq(t, selected))
        rest == FillRemaining(total_questions, selected, remaining,
                              [filled |-> <<>>, rng |-> gaps.rng])
        all == selected \o rest.filled
    IN  Shuffle(all, rest.rng, Len(all))

\* the education types in every order
PopOrders ==
    { order \in [1..NumEduTypes -> 1..NumEduTypes] :
        \A i \in 1..NumEduTypes, j \in 1..NumEduTypes : order[i] = order[j] => i = j }

CallSelect(topics, total_questions, pop_order, seed) ==
    /\ sq = <<>>
    /\ total_questions \in 1..Len(topics)
    /\ sq' = <<[op |-> "select", topics |-> topics, names |-> <<>>,
                total_questions |-> total_questions, seed |-> seed,
                result |-> select(topics, SceneList, pop_order, total_questions, seed)]>>
    /\ UNCHANGED <<servicevars, fu, webvars, min_answer_length, repo, got>>

NextSelector ==
    \E topics \in Catalogs, n \in 1..(NumScenes * NumEduTypes),
       pop_order \in PopOrders, seed \in SelectorSeeds :
        CallSelect(topics, n, pop_order, seed)

SpecSelector == Init /\ [][NextSelector]_vars

\* ------------------------------------------------- InterviewHandler calls
\* messages entered in the chat box: blank, the skip command (padded), a
\* short answer and a long one
SkipCommands == { <<"/", "skip">> }

WebInputs ==
    { <<" ">>,
      <<" ", "/", "skip">>,
      <<"a", "a">>,
      Rep("a", MinAnswerLength) }

WebLlmResults == {NoLlm, LlmFollowup}

HandlerResult(op, message) == [op |-> op, message |-> message]

\* what undo_last tells the caller
NothingToUndoMessage == "nothing_to_undo"
RollbackFailedMessage == "rollback_failed"
RestoredMessage == "restored"

Last(seq) == seq[Len(seq)]
Front(seq) == SubSeq(seq, 1, Len(seq) - 1)

\* turns are taken while the in-memory log is shorter than MaxLogLen
CanTakeTurn ==
    IF hsession = <<>> THEN TRUE
    ELSE IF hsession[1].is_finished THEN TRUE
    ELSE Len(hsession[1].conversation_log) < MaxLogLen

\* InterviewHandler.initialize: a session under a fresh id; the undo stack
\* is left as it is
Initialize(selected) ==
    /\ hsession = <<>>
    /\ LET session == InterviewSession(WebSessionId, selected)
       IN  /\ hsession' = <<session>>
           /\ legacy_db' = UpdateRow([row |-> <<>>, logs |-> <<>>], session)
    /\ hret' = HandlerResult("initialize", "welcome")
    /\ UNCHANGED <<undo_stack, undoable, servicevars, fu, sq, min_answer_length, repo, got>>

\* the handler did nothing but answer
Answered(op, message) ==
    /\ hret' = HandlerResult(op, message)
    /\ UNCHANGED <<hsession, undo_stack, legacy_db, undoable>>

\* _push_undo_snapshot, then the engine call
Operated(op, w, message) ==
    /\ undo_stack' = _push_undo_snapshot(undo_stack, hsession[1])
    /\ undoable' = Append(undoable, hsession[1])
    /\ hsession' = <<w.session>>
    /\ legacy_db' = w.database
    /\ hret' = HandlerResult(op, message)

SkipMessage(before_skip, w) ==
    IF w.session.is_finished THEN "skipped_finished"
    ELSE IF before_skip.is_followup THEN "followup_skipped"
    ELSE "question_skipped"

\* InterviewHandler.process_message
ProcessMessage(user_input, llm, seed) ==
    /\ CanTakeTurn
    /\ IF hsession = <<>> THEN Answered("process_message", "ignored")
       ELSE IF hsession[1].is_finished
         THEN Answered("process_message", "already_finished")
       ELSE IF Strip(user_input) = <<>> THEN Answered("process_message", "ignored")
       ELSE IF Strip(user_input) \in SkipCommands
         THEN LET w == EngineSkipRound(World(hsession[1], legacy_db))
              IN  Operated("process_message", w, SkipMessage(hsession[1], w))
       ELSE LET w == EngineProcessAnswer(World(hsession[1], legacy_db),
                                         user_input, llm, seed)
            IN  Operated("process_message", w,
                         IF w.session.is_finished THEN "finished"
                         ELSE IF w.session.is_followup THEN "followup"
                         ELSE "next")
    /\ UNCHANGED <<servicevars, fu, sq, min_answer_length, repo, got>>

\* InterviewHandler.skip_round
SkipRound ==
    /\ CanTakeTurn
    /\ IF hsession = <<>> THEN Answered("skip_round", "ignored")
       ELSE IF hsession[1].is_finished
         THEN Answered("skip_round", "already_finished")
       ELSE LET w == EngineSkipRound(World(hsession[1], legacy_db))
            IN  Operated("skip_round", w, SkipMessage(hsession[1], w))
    /\ UNCHANGED <<servicevars, fu, sq, min_answer_length, repo, got>>

\* InterviewHandler.undo_last; db_fails: the database refuses the rollback
HandlerUndoLast(db_fails) ==
    /\ IF hsession = <<>> THEN Answered("undo_last", "ignored")
       ELSE IF undo_stack = <<>> THEN Answered("undo_last", NothingToUndoMessage)
       ELSE LET snapshot == Last(undo_stack)
                r == rollback_session(World(hsession[1], legacy_db),
                                      snapshot.log_count_before,
                                      snapshot.session_state_before, db_fails)
            IN  /\ hsession' = <<r.session>>
                /\ legacy_db' = r.database
                /\ IF r.ok
                     THEN /\ undo_stack' = Front(undo_stack)
                          /\ undoable' = Front(undoable)
                          /\ hret' = HandlerResult("undo_last", RestoredMessage)
                   ELSE /\ UNCHANGED <<undo_stack, undoable>>
                        /\ hret' = HandlerResult("undo_last", RollbackFailedMessage)
    /\ UNCHANGED <<servicevars, fu, sq, min_answer_length, repo, got>>

NextWeb ==
    \/ \E selected \in Selections : Initialize(selected)
    \/ \E user_input \in WebInputs, llm \in WebLlmResults, seed \in Seeds :
           ProcessMessage(user_input, llm, seed)
    \/ SkipRound
    \/ \E db_fails \in BOOLEAN : HandlerUndoLast(db_fails)

SpecWeb == Init /\ [][NextWeb]_vars

\* ------------------------------------------- InterviewEngine called directly
\* The engine's methods on the session the session manager holds (hsession)
\* and its database, without the handler's checks and without undo snapshots.
\* A call on a finished session is tried while the pointer is at most one
\* past total_questions.
CanCallEngine ==
    /\ hsession # <<>>
    /\ IF hsession[1].is_finished
         THEN hsession[1].current_question_idx <= TotalQuestions
       ELSE Len(hsession[1].conversation_log) < MaxLogLen

EngineCalled(op, w) ==
    /\ hsession' = <<w.session>>
    /\ legacy_db' = w.database
    /\ hret' = HandlerResult(op, IF w.session.is_finished THEN "finished" ELSE "open")
    /\ UNCHANGED <<undo_stack, undoable, servicevars, fu, sq, min_answer_length, repo, got>>

CallProcessAnswer(answer, llm, seed) ==
    /\ CanCallEngine
    /\ EngineCalled("process_answer",
                    EngineProcessAnswer(World(hsession[1], legacy_db), answer, llm, seed))

CallSkipQuestion ==
    /\ CanCallEngine
    /\ EngineCalled("skip_question", EngineSkipQuestion(World(hsession[1], legacy_db)))

CallSkipRound ==
    /\ CanCallEngine
    /\ EngineCalled("skip_round", EngineSkipRound(World(hsession[1], legacy_db)))

NextEngine ==
    \/ \E selected \in Selections : Initialize(selected)
    \/ \E answer \in {<<"a", "a">>, Rep("a", MinAnswerLength)},
          llm \in WebLlmResults, seed \in Seeds :
           CallProcessAnswer(answer, llm, seed)
    \/ CallSkipQuestion
    \/ CallSkipRound

SpecEngine == Init /\ [][NextEngine]_vars

TypeOK ==
    /\ DOMAIN db \subseteq SessionIds
    /\ DOMAIN cache \subseteq SessionIds

\* ------------------------------------------------------------------ claims
Stored == DOMAIN db \cup DOMAIN cache
Turns == {"process_answer", "skip_question"}

\* C1: after any sequence of process_answer, skip_question, undo_last and
\* restart calls, with any answers and any provider behaviour, the follow-up
\* count of the session (as get returns it, and as stored in its row) lies
\* between 0 and max_followups_per_question.
C1_FollowupCountBounded ==
    /\ \A sid \in Stored :
          /\ RepoGet(sid).current_followup_count >= 0
          /\ RepoGet(sid).current_followup_count <= MaxFollowupsPerQuestion
    /\ \A sid \in DOMAIN db :
          /\ db[sid].current_followup_count >= 0
          /\ db[sid].current_followup_count <= MaxFollowupsPerQuestion

C1_Witness ==
    \E sid \in Stored :
        /\ ret.op = "process_answer"
        /\ ret.out = "ok"
        /\ RepoGet(sid).is_followup
        /\ RepoGet(sid).current_followup_count = MaxFollowupsPerQuestion

\* The fields a turn and its undo are compared on.
SameTurnState(s, t) ==
    /\ s.current_question_idx = t.current_question_idx
    /\ s.is_followup = t.is_followup
    /\ s.current_followup_count = t.current_followup_count
    /\ s.current_followup_question = t.current_followup_question
    /\ s.current_followup_is_ai = t.current_followup_is_ai
    /\ s.status = t.status

\* C2: one successful process_answer or skip_question followed by one
\* successful undo_last leaves current_question_idx, is_followup, the
\* follow-up count, question and flag, status and the log length equal to
\* their values before the turn.
C2_UndoInvertsTurn ==
    [][\A sid \in SessionIds :
          (/\ before # <<>>
           /\ ret.op \in Turns
           /\ ret.out = "ok"
           /\ ret.sid = sid
           /\ \E x \in BOOLEAN : UndoLast(sid, "none", x)
           /\ ret'.out = "ok")
          => /\ SameTurnState(get(cache', db', sid), before[1].session)
             /\ Len(log'[sid]) = before[1].log_len]_vars

\* C3: an undo_last whose repository call fails (the delete, or the save
\* after the delete) leaves the log length and the session that a later get
\* returns as they were before the call.
C3_UndoAllOrNothing ==
    [][\A sid \in SessionIds :
          (/\ Exists(sid)
           /\ \E f \in {"delete", "save"}, x \in BOOLEAN : UndoLast(sid, f, x)
           /\ ret'.out = "RepositoryError")
          => /\ Len(log'[sid]) = Len(log[sid])
             /\ get(cache', db', sid) = RepoGet(sid)
             /\ get(<<>>, db', sid) = RepoGet(sid)]_vars

\* C4: a session starts at question 0, ACTIVE; every process_answer that asks
\* for no follow-up on a session waiting for a core answer (total_questions
\* topics selected) raises current_question_idx by exactly 1, never past
\* total_questions; status becomes COMPLETED on exactly the call that makes
\* the index equal total_questions, and a call on the COMPLETED session
\* changes neither index nor status.
C4_AdvanceToCompletion ==
    [][/\ \A sid \in SessionIds :
            (/\ ret'.op = "start_session"
             /\ \E sel \in Selections : StartSession(sid, sel, "none"))
            => /\ get(cache', db', sid).current_question_idx = 0
               /\ get(cache', db', sid).status = "active"
       /\ \A sid \in SessionIds :
            (/\ Exists(sid)
             /\ ret'.op = "process_answer"
             /\ Len(RepoGet(sid).selected_topics) = TotalQuestions
             /\ ~RepoGet(sid).is_followup
             /\ ~get(cache', db', sid).is_followup
             /\ \E a \in Answers, l \in LlmResults, x \in BOOLEAN :
                   ProcessAnswer(sid, a, l, "none", x))
            => LET s == RepoGet(sid)
                   t == get(cache', db', sid)
               IN  IF s.status = "active"
                     THEN /\ s.current_question_idx < TotalQuestions
                          /\ t.current_question_idx = s.current_question_idx + 1
                          /\ (t.status = "completed")
                               <=> (t.current_question_idx = TotalQuestions)
                          /\ ret'.is_finished <=> (t.status = "completed")
                     ELSE /\ t.current_question_idx = s.current_question_idx
                          /\ t.status = s.status]_vars

IsCoreEntry(e) == e.question_type = "core"

C4_Witness ==
    \E sid \in Stored :
        /\ ret.op = "process_answer"
        /\ ret.out = "ok"
        /\ ret.is_finished
        /\ RepoGet(sid).status = "completed"
        /\ RepoGet(sid).current_question_idx = TotalQuestions
        /\ Len(log[sid]) = TotalQuestions
        /\ \A i \in 1..Len(log[sid]) :
              IsCoreEntry(log[sid][i]) /\ log[sid][i].answer # SkipAnswer

\* C5: should_followup answers "no" whenever current_followup_count >=
\* max_followups_per_question, for every answer, depth score and provider
\* result, and does not call the provider.
C5_Ceiling ==
    fu # <<>> /\ fu[1].current_followup_count >= MaxFollowupsPerQuestion
    => ~fu[1].result.need_followup /\ ~fu[1].result.consulted

C5_Witness ==
    /\ fu # <<>>
    /\ fu[1].current_followup_count = MaxFollowupsPerQuestion
    /\ fu[1].answer = <<>>
    /\ fu[1].depth_score = 0
    /\ fu[1].llm = LlmFollowup
    /\ ~fu[1].result.need_followup

\* C6: should_followup answers "no" whenever depth_score >= max_depth_score,
\* whatever the answer's length and whatever the provider would return.
C6_DepthShortCircuit ==
    fu # <<>> /\ fu[1].depth_score >= MaxDepthScore
    => ~fu[1].result.need_followup

C6_Witness ==
    /\ fu # <<>>
    /\ fu[1].depth_score = MaxDepthScore
    /\ fu[1].current_followup_count = 0
    /\ Len(Strip(fu[1].answer)) < MinAnswerLength
    /\ fu[1].llm = LlmFollowup
    /\ ~fu[1].result.need_followup

\* C7: on a COMPLETED session process_answer and skip_question fail with
\* SessionAlreadyCompletedError and change no session field (as get returns
\* it, and in the table) and no log row.
C7_CompletedRejects ==
    [][\A sid \in SessionIds :
          (/\ Exists(sid)
           /\ RepoGet(sid).status = "completed"
           /\ ret'.op \in Turns
           /\ \/ \E a \in Answers, l \in LlmResults, x \in BOOLEAN :
                    ProcessAnswer(sid, a, l, "none", x)
              \/ \E x \in BOOLEAN : SkipQuestion(sid, "none", x))
          => /\ ret'.out = "SessionAlreadyCompletedError"
             /\ get(cache', db', sid) = RepoGet(sid)
             /\ db' = db
             /\ log' = log]_vars

C7_Witness ==
    \E sid \in Stored :
        /\ ret.out = "SessionAlreadyCompletedError"
        /\ ret.op = "skip_question"
        /\ RepoGet(sid).status = "completed"
        /\ Len(log[sid]) >= TotalQuestions

\* C8: undoing the turn that completed the session (an answer or a skip on
\* the last question, which appended an entry) makes the session ACTIVE again
\* at current_question_idx = total_questions - 1, with the last topic current.
C8_UndoOfCompletingTurn ==
    [][\A sid \in SessionIds :
          (/\ before # <<>>
           /\ ret.op \in Turns
           /\ ret.out = "ok"
           /\ ret.is_finished
           /\ ret.sid = sid
           /\ Len(RepoGet(sid).selected_topics) = TotalQuestions
           /\ Len(log[sid]) = before[1].log_len + 1
           /\ \E x \in BOOLEAN : UndoLast(sid, "none", x)
           /\ ret'.out = "ok")
          => LET t == get(cache', db', sid)
             IN  /\ t.status = "active"
                 /\ t.current_question_idx = TotalQuestions - 1
                 /\ _get_current_topic(t) = t.selected_topics[TotalQuestions]]_vars

\* C9: for a session with total_questions selected topics, after every
\* completed operation status is COMPLETED exactly when
\* current_question_idx = total_questions.
C9_CompletedIffAtEnd ==
    \A sid \in Stored :
        (ret.out = "ok" /\ Len(RepoGet(sid).selected_topics) = TotalQuestions)
        => ((RepoGet(sid).status = "completed")
             <=> (RepoGet(sid).current_question_idx = TotalQuestions))

\* C10: after any sequence of process_answer, skip_question, undo_last and
\* restart calls, 0 <= current_question_idx <= len(selected_topics), in the
\* session get returns and in its row.
C10_IndexInRange ==
    /\ \A sid \in Stored :
          /\ RepoGet(sid).current_question_idx >= 0
          /\ RepoGet(sid).current_question_idx <= Len(RepoGet(sid).selected_topics)
    /\ \A sid \in DOMAIN db :
          /\ db[sid].current_question_idx >= 0
          /\ db[sid].current_question_idx <= Len(db[sid].selected_topics)

C10_Witness ==
    \E sid \in Stored :
        /\ ret.op = "undo_last"
        /\ ret.out = "ok"
        /\ RepoGet(sid).status = "active"
        /\ RepoGet(sid).current_question_idx = Len(RepoGet(sid).selected_topics)

\* ------------------------------------------------------- selector claims
HasScene(topics, scene) == \E i \in 1..Len(topics) : topics[i].scene = scene
HasEduType(topics, edu) == \E i \in 1..Len(topics) : topics[i].edu_type = edu
NoDuplicates(seq) == \A i, j \in 1..Len(seq) : i # j => seq[i] # seq[j]
SelectQuestionsCalled == sq # <<>> /\ sq[1].op = "select_questions"
SelectTopicsCalled == sq # <<>> /\ sq[1].op = "_select_topics"

\* C16: for every catalog in which each configured scene has a topic, every
\* seed and every total_questions >= the number of scenes, the topics
\* select_questions returns include a topic of every configured scene.
C16_SceneCoverage ==
    (/\ SelectQuestionsCalled
     /\ \A scene \in 1..NumScenes : HasScene(sq[1].topics, scene)
     /\ sq[1].total_questions >= NumScenes)
    => \A scene \in 1..NumScenes : HasScene(sq[1].result, scene)

C16_Witness ==
    /\ SelectQuestionsCalled
    /\ sq[1].topics = FullCatalog
    /\ sq[1].total_questions = NumScenes
    /\ Len(sq[1].result) = NumScenes
    /\ \A scene \in 1..NumScenes : HasScene(sq[1].result, scene)
    /\ sq[1].result[1].scene # 1

\* C17: for every catalog in which each configured education type has a
\* topic, every seed and every total_questions that is >= the number of
\* scenes and >= the number of education types, the topics select_questions
\* returns include a topic of every configured education type.
C17_EduCoverage ==
    (/\ SelectQuestionsCalled
     /\ \A edu \in 1..NumEduTypes : HasEduType(sq[1].topics, edu)
     /\ sq[1].total_questions >= NumScenes
     /\ sq[1].total_questions >= NumEduTypes)
    => \A edu \in 1..NumEduTypes : HasEduType(sq[1].result, edu)

\* C18: for every catalog of pairwise-distinct topics, every seed and every
\* total_questions >= 0, select_questions returns no topic twice and returns
\* exactly min(total_questions, number of catalog topics) topics.
C18_NoDuplicates ==
    SelectQuestionsCalled
    => /\ NoDuplicates(sq[1].result)
       /\ Len(sq[1].result) = Min(sq[1].total_questions, Len(sq[1].topics))

C18_Witness ==
    /\ SelectQuestionsCalled
    /\ sq[1].topics = FullCatalog
    /\ sq[1].total_questions > NumScenes
    /\ Len(sq[1].result) = sq[1].total_questions
    /\ NoDuplicates(sq[1].result)

\* the catalog topics whose name is among the requested names
Matched(call) ==
    SelectSeq(call.topics,
              LAMBDA t : \E i \in 1..Len(call.names) : Strip(call.names[i]) = t.name)

\* C20: _select_topics with a topic list: when the names match k <=
\* total_questions catalog topics, the result contains all k of them, holds
\* no topic twice and has exactly min(total_questions, catalog size) topics;
\* without a list the result is exactly what select_questions returns.
C20_ExplicitTopics ==
    SelectTopicsCalled
    => IF sq[1].names # <<>>
         THEN Len(Matched(sq[1])) <= sq[1].total_questions
              => /\ \A i \in 1..Len(Matched(sq[1])) :
                       InSeq(Matched(sq[1])[i], sq[1].result)
                 /\ NoDuplicates(sq[1].result)
                 /\ Len(sq[1].result) = Min(sq[1].total_questions, Len(sq[1].topics))
       ELSE sq[1].result = select_questions(sq[1].topics, SceneList, EduTypeList,
                                            sq[1].total_questions, sq[1].seed)

C20_Witness ==
    /\ SelectTopicsCalled
    /\ sq[1].topics = FullCatalog
    /\ Len(Matched(sq[1])) = 1
    /\ sq[1].total_questions > NumScenes
    /\ Len(sq[1].result) = sq[1].total_questions
    /\ sq[1].result[1] = Matched(sq[1])[1]
    /\ InSeq(Matched(sq[1])[1],
             select_questions(sq[1].topics, SceneList, EduTypeList,
                              sq[1].total_questions, sq[1].seed))

\* ------------------------------------------------ service claims, continued
IsPrefix(s, t) == Len(s) <= Len(t) /\ SubSeq(t, 1, Len(s)) = s

\* C14: a process_answer or skip_question that does not complete (the save
\* fails after the entry was appended, or the follow-up decision raises)
\* leaves the conversation log and the session a later get returns (from the
\* cache, or from the table once the cache entry is gone) as before the call.
C14_TurnAllOrNothing ==
    [][\A sid \in SessionIds :
          (/\ Exists(sid)
           /\ ret'.op \in Turns
           /\ ret'.out \in {"RepositoryError", "ProviderError"}
           /\ \/ \E a \in Answers, l \in LlmResults, f \in {"followup", "save"},
                    x \in BOOLEAN : ProcessAnswer(sid, a, l, f, x)
              \/ \E x \in BOOLEAN : SkipQuestion(sid, "save", x))
          => /\ log'[sid] = log[sid]
             /\ get(cache', db', sid) = RepoGet(sid)
             /\ get(<<>>, db', sid) = RepoGet(sid)]_vars

\* C15: every successful process_answer or skip_question on an ACTIVE session
\* that has a current topic appends exactly one entry at the tail and leaves
\* the earlier entries as they were; a successful undo_last removes exactly
\* the last entry; no operation changes or removes an entry that is not at
\* the tail (restart removes all of them).
C15_AppendOnly ==
    [][\A sid \in SessionIds :
          /\ IsPrefix(log[sid], log'[sid]) \/ IsPrefix(log'[sid], log[sid])
          /\ (/\ Exists(sid)
              /\ ret'.op \in Turns
              /\ ret'.out = "ok"
              /\ RepoGet(sid).status = "active"
              /\ _get_current_topic(RepoGet(sid)) # NoTopic)
             => /\ Len(log'[sid]) = Len(log[sid]) + 1
                /\ IsPrefix(log[sid], log'[sid])
          /\ (ret'.op = "undo_last" /\ ret'.out = "ok")
             => /\ Len(log'[sid]) = Len(log[sid]) - 1
                /\ IsPrefix(log'[sid], log[sid])
          /\ (ret'.op = "restart" /\ ret'.out = "ok") => log'[sid] = <<>>]_vars

C15_Witness ==
    \E sid \in Stored :
        /\ ret.op = "undo_last"
        /\ ret.out = "ok"
        /\ Len(log[sid]) = 2
        /\ log[sid][1].question_type = "core"
        /\ log[sid][2].question_type = "followup_answer"

\* ------------------------------------------------------ web handler undo
UndoStep == hsession # <<>> /\ hret'.op = "undo_last"

\* C11: when rollback_session reports failure, undo_last leaves the undo
\* stack and every in-memory session field and log entry as they were, and
\* the caller gets the rollback-failed message, which is not the
\* nothing-to-undo message.
C11_FailedRollbackChangesNothing ==
    [][(/\ UndoStep
        /\ undo_stack # <<>>
        /\ \E db_fails \in BOOLEAN :
              /\ HandlerUndoLast(db_fails)
              /\ ~rollback_session(World(hsession[1], legacy_db),
                                   Last(undo_stack).log_count_before,
                                   Last(undo_stack).session_state_before,
                                   db_fails).ok)
       => /\ undo_stack' = undo_stack
          /\ hsession' = hsession
          /\ hret'.message = RollbackFailedMessage
          /\ RollbackFailedMessage # NothingToUndoMessage]_vars

\* the database refused a rollback after an answer that opened a follow-up
C11_Witness ==
    /\ hret = HandlerResult("undo_last", RollbackFailedMessage)
    /\ undo_stack # <<>>
    /\ hsession[1].is_followup
    /\ hsession[1].conversation_log # <<>>

SameSessionState(session, earlier) ==
    /\ session.current_question_idx = earlier.current_question_idx
    /\ session.is_finished = earlier.is_finished
    /\ session.end_time = earlier.end_time
    /\ session.is_followup = earlier.is_followup
    /\ session.current_followup_count = earlier.current_followup_count
    /\ session.current_followup_question = earlier.current_followup_question
    /\ session.current_followup_is_ai = earlier.current_followup_is_ai
    /\ Len(session.conversation_log) = Len(earlier.conversation_log)

\* C12: every successful undo_last puts the session back to what it was
\* just before the latest operation not yet undone, so j undos after k
\* operations give the state before operation k-j+1.
C12_UndoIsLifo ==
    [][(UndoStep /\ hret'.message = RestoredMessage)
       => /\ undoable # <<>>
          /\ SameSessionState(hsession'[1], Last(undoable))
          /\ undoable' = Front(undoable)]_vars

\* an undo gave back a follow-up state while an earlier operation can
\* still be undone
C12_Witness ==
    /\ hret = HandlerResult("undo_last", RestoredMessage)
    /\ undo_stack # <<>>
    /\ undoable # <<>>
    /\ hsession[1].is_followup
    /\ hsession[1].current_followup_count = 1

\* the stack holds the snapshots of the latest operations not yet undone
HoldsMostRecent ==
    LET off == Len(undoable) - Len(undo_stack)
    IN  /\ off >= 0
        /\ \A i \in 1..Len(undo_stack) :
              /\ undo_stack[i].session_state_before =
                     _capture_session_state(undoable[off + i])
              /\ undo_stack[i].log_count_before =
                     Len(undoable[off + i].conversation_log)

\* C13: the undo stack never holds more than UndoStackMaxlen snapshots, a
\* push onto a full stack drops the oldest one, the stack always holds the
\* most recent operations, and an undo on an empty stack reports that there
\* is nothing to undo.
C13_UndoStackBounded ==
    /\ [](Len(undo_stack) <= UndoStackMaxlen /\ HoldsMostRecent)
    /\ [][/\ (Len(undo_stack) = UndoStackMaxlen /\ Len(undoable') > Len(undoable))
             => /\ Len(undo_stack') = UndoStackMaxlen
                /\ Front(undo_stack') = Tail(undo_stack)
          /\ (UndoStep /\ undo_stack = <<>>)
             => /\ hret'.message = NothingToUndoMessage
                /\ hsession' = hsession]_vars

\* more operations than the stack holds, all that it held undone, and one
\* more undo refused
C13_Witness ==
    /\ hret = HandlerResult("undo_last", NothingToUndoMessage)
    /\ undo_stack = <<>>
    /\ undoable # <<>>

\* ------------------------------------------------------- restart and skip
\* C21: restart of an existing session in any state, COMPLETED included,
\* returns and leaves an empty log and an ACTIVE session at question 0 with
\* every follow-up field reset and the selected topics as they were.
C21_RestartResets ==
    [][\A sid \in SessionIds :
          (/\ Exists(sid)
           /\ ret'.op = "restart"
           /\ \E x \in BOOLEAN : Restart(sid, "none", 0, x))
          => /\ ret'.out = "ok"
             /\ log'[sid] = <<>>
             /\ \A t \in {get(cache', db', sid), get(<<>>, db', sid)} :
                   /\ t.current_question_idx = 0
                   /\ ~t.is_followup
                   /\ t.current_followup_count = 0
                   /\ t.current_followup_question = <<>>
                   /\ ~t.current_followup_is_ai
                   /\ t.status = "active"
                   /\ t.selected_topics = RepoGet(sid).selected_topics]_vars

\* a COMPLETED session with rows in its log has been restarted
C21_Witness ==
    /\ ret.op = "restart"
    /\ ret.out = "ok"
    /\ before # <<>>
    /\ before[1].session.status = "completed"
    /\ before[1].log_len >= TotalQuestions
    /\ log[ret.sid] = <<>>

IsSkipSentinel(e) ==
    /\ e.answer \in {SkipAnswer, SkipFollowupAnswer}
    /\ e.depth_score = 0

\* C22: skip_question on an ACTIVE session with a current topic, waiting for
\* a core answer or for a follow-up answer, appends exactly one "skipped"
\* entry, clears the follow-up state (flag, count, question, AI flag), raises
\* current_question_idx by exactly 1 and completes the session exactly when
\* the new index equals total_questions.
C22_SkipAdvances ==
    [][\A sid \in SessionIds :
          (/\ Exists(sid)
           /\ RepoGet(sid).status = "active"
           /\ _get_current_topic(RepoGet(sid)) # NoTopic
           /\ ret'.op = "skip_question"
           /\ \E x \in BOOLEAN : SkipQuestion(sid, "none", x))
          => LET s == RepoGet(sid)
                 t == get(cache', db', sid)
             IN  /\ ret'.out = "ok"
                 /\ Len(log'[sid]) = Len(log[sid]) + 1
                 /\ SubSeq(log'[sid], 1, Len(log[sid])) = log[sid]
                 /\ IsSkipSentinel(log'[sid][Len(log'[sid])])
                 /\ ~t.is_followup
                 /\ t.current_followup_count = 0
                 /\ t.current_followup_question = <<>>
                 /\ ~t.current_followup_is_ai
                 /\ t.current_question_idx = s.current_question_idx + 1
                 /\ (t.status = "completed")
                      <=> (t.current_question_idx = TotalQuestions)
                 /\ ret'.is_finished <=> (t.status = "completed")
                 /\ get(<<>>, db', sid) = t]_vars

\* a follow-up on the last question was skipped and the session completed
C22_Witness ==
    /\ ret.op = "skip_question"
    /\ ret.out = "ok"
    /\ before # <<>>
    /\ before[1].session.is_followup
    /\ before[1].session.current_followup_count >= 1
    /\ before[1].session.current_followup_is_ai
    /\ RepoGet(ret.sid).status = "completed"
    /\ log[ret.sid][Len(log[ret.sid])].answer = SkipFollowupAnswer

\* ------------------------------------------------- follow-up decision
NoProviderQuestion == {NoLlm, Nothing, <<>>}

BelowLimits(call) ==
    /\ call.current_followup_count < MaxFollowupsPerQuestion
    /\ call.depth_score < MaxDepthScore

IsShort(answer) == Strip(answer) = <<>> \/ Len(Strip(answer)) < MinAnswerLength

PresetSet(topic) ==
    IF TopicFollowups(topic) = <<>> THEN {DefaultFollowup}
    ELSE { TopicFollowups(topic)[i] : i \in 1..Len(TopicFollowups(topic)) }

\* C23: below the follow-up ceiling and the depth limit, with no provider or
\* a provider that returns nothing, an answer that is empty or shorter than
\* min_answer_length after trimming gets a follow-up that is not AI-generated
\* and is one of the topic's preset follow-ups (the generic question when the
\* topic has none).
C23_PresetFallback ==
    (/\ fu # <<>>
     /\ BelowLimits(fu[1])
     /\ fu[1].llm \in NoProviderQuestion
     /\ IsShort(fu[1].answer))
    => /\ fu[1].result.need_followup
       /\ ~fu[1].result.is_ai_generated
       /\ fu[1].result.followup_question \in PresetSet(fu[1].topic)

\* a blank answer on a topic with presets, the provider returning nothing,
\* and the second preset chosen
C23_Witness ==
    /\ fu # <<>>
    /\ BelowLimits(fu[1])
    /\ fu[1].llm = Nothing
    /\ Strip(fu[1].answer) = <<>>
    /\ TopicFollowups(fu[1].topic) # <<>>
    /\ fu[1].result.need_followup
    /\ fu[1].result.followup_question = TopicFollowups(fu[1].topic)[2]

\* C25: below the follow-up ceiling and the depth limit, a provider that
\* returns a non-empty text s makes should_followup return s as the follow-up,
\* marked AI-generated, whatever the answer's length; no preset is returned.
C25_ProviderPreferred ==
    (/\ fu # <<>>
     /\ BelowLimits(fu[1])
     /\ fu[1].llm \notin NoProviderQuestion)
    => /\ fu[1].result.need_followup
       /\ fu[1].result.followup_question = fu[1].llm
       /\ fu[1].result.is_ai_generated
       /\ fu[1].result.followup_question \notin PresetSet(fu[1].topic)

\* the provider's question wins over the presets of a forced turn
C25_Witness ==
    /\ fu # <<>>
    /\ BelowLimits(fu[1])
    /\ fu[1].llm = LlmFollowup
    /\ IsShort(fu[1].answer)
    /\ TopicFollowups(fu[1].topic) # <<>>
    /\ fu[1].result.followup_question = LlmFollowup
    /\ fu[1].result.is_ai_generated

IsAdequate(answer) == Len(Strip(answer)) >= MinAnswerLength

\* C24: with no provider, or a provider that returns nothing, an answer of at
\* least min_answer_length characters after trimming gets no follow-up, at
\* every follow-up count and every depth score; given to process_answer on an
\* ACTIVE session with a current topic, it moves the session to the next
\* question.
C24_AdequateNotProbed ==
    /\ []((/\ fu # <<>>
           /\ fu[1].llm \in NoProviderQuestion
           /\ IsAdequate(fu[1].answer))
          => ~fu[1].result.need_followup)
    /\ [][\A sid \in SessionIds :
            (/\ ret'.op = "process_answer"
             /\ Exists(sid)
             /\ RepoGet(sid).status = "active"
             /\ _get_current_topic(RepoGet(sid)) # NoTopic
             /\ Len(log'[sid]) > Len(log[sid])
             /\ IsAdequate(log'[sid][Len(log'[sid])].answer)
             /\ \E a \in {b \in Answers : IsAdequate(b)}, l \in NoProviderQuestion,
                   x \in BOOLEAN : ProcessAnswer(sid, a, l, "none", x))
            => /\ ret'.out = "ok"
               /\ get(cache', db', sid).current_question_idx =
                      RepoGet(sid).current_question_idx + 1
               /\ ~get(cache', db', sid).is_followup]_vars

\* an adequate answer of depth 0 to a pending follow-up moved the session on
C24_Witness ==
    /\ ret.op = "process_answer"
    /\ ret.out = "ok"
    /\ before # <<>>
    /\ before[1].session.is_followup
    /\ before[1].session.current_followup_count < MaxFollowupsPerQuestion
    /\ RepoGet(ret.sid).current_question_idx =
           before[1].session.current_question_idx + 1
    /\ LET last == log[ret.sid][Len(log[ret.sid])]
       IN  /\ IsAdequate(last.answer)
           /\ last.depth_score = 0
           /\ last.question_type = "followup_answer"

IsBlank(answer) == Strip(answer) = <<>>

\* C26: whatever min_answer_length >= 1 is configured, process_answer with an
\* empty or blank answer on a session waiting for a core answer, the provider
\* returning nothing and the follow-up ceiling not reached, records one entry
\* holding the "no valid answer" text and leaves the session waiting for the
\* answer to a preset, non-AI follow-up.
C26_EmptyAnswerForced ==
    [][\A sid \in SessionIds :
          (/\ ret'.op = "process_answer"
           /\ min_answer_length >= 1
           /\ Exists(sid)
           /\ RepoGet(sid).status = "active"
           /\ ~RepoGet(sid).is_followup
           /\ RepoGet(sid).current_followup_count < MaxFollowupsPerQuestion
           /\ _get_current_topic(RepoGet(sid)) # NoTopic
           /\ \E a \in {b \in Answers : IsBlank(b)}, l \in NoProviderQuestion,
                 x \in BOOLEAN : ProcessAnswer(sid, a, l, "none", x))
          => LET t == get(cache', db', sid)
             IN  /\ ret'.out = "ok"
                 /\ Len(log'[sid]) = Len(log[sid]) + 1
                 /\ log'[sid][Len(log'[sid])].answer = NoValidAnswer
                 /\ t.is_followup
                 /\ ~t.current_followup_is_ai
                 /\ t.current_followup_question
                        \in PresetSet(_get_current_topic(RepoGet(sid)))
                 /\ t.current_question_idx = RepoGet(sid).current_question_idx]_vars

\* ------------------------------------------------------ error conditions
SessionCalls ==
    {"get_messages", "process_answer", "skip_question", "undo_last", "restart"}

\* C27: get_messages, process_answer, skip_question, undo_last and restart
\* on a session id without a stored session fail with SessionNotFoundError,
\* create no session (row or cache entry) and add or remove no log row.
C27_NotFound ==
    [][\A sid \in SessionIds :
          (/\ ret'.op \in SessionCalls
           /\ ret'.sid = sid
           /\ sid \notin DOMAIN db)
          => /\ ret'.out = "SessionNotFoundError"
             /\ db' = db
             /\ cache' = cache
             /\ log' = log]_vars

\* get_messages did not find the session
C27_Witness ==
    /\ ret.op = "get_messages"
    /\ ret.out = "SessionNotFoundError"
    /\ ret.sid \notin DOMAIN db
    /\ ret.sid \notin DOMAIN cache
    /\ log[ret.sid] = <<>>

\* C28: undo_last on an existing session whose log is empty fails with
\* NothingToUndoError, which is neither the not-found nor the
\* already-completed condition, and changes no session field (as get returns
\* it, and in the table) and no log row; so does a second undo after the
\* only turn was undone.
C28_NothingToUndo ==
    [][\A sid \in SessionIds :
          (/\ ret'.op = "undo_last"
           /\ Exists(sid)
           /\ log[sid] = <<>>
           /\ \E x \in BOOLEAN : UndoLast(sid, "none", x))
          => /\ ret'.out = "NothingToUndoError"
             /\ ret'.out \notin {"SessionNotFoundError", "SessionAlreadyCompletedError"}
             /\ get(cache', db', sid) = RepoGet(sid)
             /\ db' = db
             /\ log' = log]_vars

\* an undo was refused on a started session with an empty log
C28_Witness ==
    /\ ret.op = "undo_last"
    /\ ret.out = "NothingToUndoError"
    /\ ret.sid \in DOMAIN db
    /\ log[ret.sid] = <<>>
    /\ RepoGet(ret.sid).status = "active"

\* C29: after a successful save every later get returns exactly the saved
\* field values, from the cache and, once the cache entry is gone, from the
\* database; after a successful delete get returns none.
C29_CacheFresh ==
    (got # <<>> /\ got[1].op = "get")
    => got[1].returned = repo.saved

\* C30: score_depth(answer) is an integer from 0 to max_depth_score, and the
\* score of an answer with an occurrence of a depth keyword appended is not
\* lower than the score of the answer.
C30_ScoreDepthMonotone ==
    (got # <<>> /\ got[1].op = "score_depth" /\ got[1].score # <<>>)
    => /\ got[1].score[1] \in 0..MaxDepthScore
       /\ got[1].previous # <<>> => got[1].score[1] >= got[1].previous[1]

\* C31: an InterviewService operation on one session (process_answer,
\* skip_question, undo_last, restart), in any interleaving with operations on
\* another session, leaves the other session's stored fields (its row and the
\* session get returns) and its conversation log unchanged.
C31_SessionsIndependent ==
    [][\A a \in BothSessionIds, b \in BothSessionIds :
         (/\ a # b
          /\ ret'.sid = a
          /\ ret'.op \in {"process_answer", "skip_question", "undo_last", "restart"})
         => /\ log'[b] = log[b]
            /\ (b \in DOMAIN db) = (b \in DOMAIN db')
            /\ (b \in DOMAIN cache) = (b \in DOMAIN cache')
            /\ b \in DOMAIN db => db'[b] = db[b]
            /\ b \in DOMAIN cache => cache'[b] = cache[b]]_vars

\* session 1 was just operated on while session 2 is stored with a log row
C31_Witness ==
    /\ ret.sid = 1
    /\ ret.op \in {"undo_last", "restart"}
    /\ ret.out = "ok"
    /\ 2 \in DOMAIN db
    /\ log[2] # <<>>
    /\ log[1] # log[2]

\* C32: requests for the same session id (message, skip or undo) are
\* serialized by the calling layer: a request reads the session only when no
\* earlier request is still between its read and its save.
C32_Serialized ==
    [][Len(got') > Len(got) => got = <<>>]_vars

\* C33: after any sequence of process_answer, skip_question, undo_last and
\* restart calls, whenever is_followup is false the follow-up sub-state is
\* cleared: count 0, question empty, is_ai false (in the session get returns
\* and in its row).
FollowupCleared(count, question, is_ai) ==
    count = 0 /\ question = <<>> /\ ~is_ai

C33_FollowupSubstateCleared ==
    /\ \A sid \in Stored :
          ~RepoGet(sid).is_followup
          => FollowupCleared(RepoGet(sid).current_followup_count,
                             RepoGet(sid).current_followup_question,
                             RepoGet(sid).current_followup_is_ai)
    /\ \A sid \in DOMAIN db :
          db[sid].is_followup = 0
          => FollowupCleared(db[sid].current_followup_count,
                             db[sid].current_followup_question,
                             db[sid].current_followup_is_ai # 0)

\* a provider follow-up round was just left by answering or skipping
C33_Witness ==
    \E sid \in Stored :
        /\ ret.op \in Turns
        /\ ret.out = "ok"
        /\ before # <<>>
        /\ before[1].session.is_followup
        /\ before[1].session.current_followup_is_ai
        /\ before[1].session.current_followup_count > 0
        /\ ~RepoGet(sid).is_followup

\* C34: after any sequence of process_answer, skip_question and undo_last
\* calls the log is a concatenation of per-question blocks in question order:
\* the n-th core entry (answer or skip) is of selected_topics[n], and it is
\* followed by at most max_followups_per_question follow-up entries (answer
\* or skip) of the same topic; no follow-up entry comes before the first core
\* entry.
CoresUpTo(entries, k) ==
    Cardinality({ j \in 1..k : entries[j].question_type = "core" })

FollowupsAfter(entries, k) ==
    Cardinality({ j \in (k + 1)..Len(entries) :
                    /\ IsFollowupType(entries[j].question_type)
                    /\ CoresUpTo(entries, j) = CoresUpTo(entries, k) })

WellFormedLog(entries, selected_topics) ==
    \A k \in 1..Len(entries) :
        LET n == CoresUpTo(entries, k)
        IN  /\ n \in 1..Len(selected_topics)
            /\ entries[k].topic = TopicName(selected_topics[n])
            /\ entries[k].question_type = "core"
               => FollowupsAfter(entries, k) <= MaxFollowupsPerQuestion

C34_LogWellFormed ==
    \A sid \in Stored : WellFormedLog(log[sid], RepoGet(sid).selected_topics)

\* C35: without undo or restart every accepted process_answer or
\* skip_question call adds one log row (or completes the session), an active
\* session has fewer than total_questions * (1 + max_followups_per_question)
\* rows and a completed one at most that many: the session is COMPLETED after
\* at most that many calls, whatever the answers and the provider.
LongestInterview == TotalQuestions * (1 + MaxFollowupsPerQuestion)

C35_BoundedLength ==
    /\ [](\A sid \in Stored :
            IF is_finished(RepoGet(sid))
              THEN Len(log[sid]) <= LongestInterview
            ELSE Len(log[sid]) < LongestInterview)
    /\ [][\A sid \in SessionIds :
            (ret'.sid = sid /\ ret'.op \in Turns /\ ret'.out = "ok")
            => \/ Len(log'[sid]) = Len(log[sid]) + 1
               \/ (is_finished(RepoGet(sid))' /\ log'[sid] = log[sid])]_vars

\* the longest interview: completed with every question followed up to the
\* ceiling
C35_Witness ==
    \E sid \in Stored :
        /\ is_finished(RepoGet(sid))
        /\ Len(log[sid]) = LongestInterview

\* C36: InterviewEngine.skip_question and skip_round called on a session that
\* is already finished are rejected: current_question_idx, end_time and the
\* conversation log are left unchanged.
C36_FinishedRejectsSkip ==
    [][(/\ hsession # <<>>
        /\ hsession[1].is_finished
        /\ CallSkipQuestion \/ CallSkipRound)
       => /\ hsession'[1].current_question_idx = hsession[1].current_question_idx
          /\ hsession'[1].end_time = hsession[1].end_time
          /\ hsession'[1].conversation_log = hsession[1].conversation_log]_vars

\* C37: in the original engine's should_followup an answer shorter than
\* min_answer_length whose depth score reaches max_depth_score gets no
\* follow-up, whether or not the provider returns a question.
C37_DepthVetoesForced ==
    (/\ got # <<>>
     /\ got[1].op = "should_followup"
     /\ Len(Strip(got[1].answer)) < MinAnswerLength
     /\ score_depth(Strip(got[1].answer)) >= MaxDepthScore)
    => ~got[1].result.need_followup

\* C38: QuestionSelector.select returns exactly total_questions topics for
\* every total_questions from 1 to the catalog size, also when it is smaller
\* than the number of scenes.
C38_SelectCount ==
    (/\ sq # <<>>
     /\ sq[1].op = "select"
     /\ sq[1].total_questions \in 1..Len(sq[1].topics))
    => Len(sq[1].result) = sq[1].total_questions

\* C39: after every InterviewEngine.process_answer, skip_question and
\* skip_round the database holds as many conversation log rows of the session
\* as the in-memory log has entries.
C39_PersistedLogInStep ==
    (/\ hsession # <<>>
     /\ hret.op \in {"process_answer", "skip_question", "skip_round"})
    => Len(legacy_db.logs) = Len(hsession[1].conversation_log)

====
